---- MODULE Spec2Model ----
(***************************************************************************)
(* State-machine model of the news crawler pipeline (pasharad/python-      *)
(* crawler): the sqlite content store of db/database.py, the enrichment    *)
(* loop and the crawl loop of main.py, and the two delivery loops of       *)
(* utils/helpers.py.                                                       *)
(*                                                                         *)
(* Tables are sequences of rows in insertion order (rowid order), so that  *)
(* a table without a UNIQUE constraint can hold two rows with one key.     *)
(* Keys are tagged values: <<"url", i>> and <<"title", i>>.                *)
(* A text is a sequence of lines; a line is abstracted by the set of       *)
(* lowercase terms that occur in it as substrings.  <<{}>> is the empty    *)
(* string "".                                                              *)
(***************************************************************************)
EXTENDS Integers, Sequences, FiniteSets, TLC

\* ------------------------------------------------------------------ bounds
\* number of distinct article urls / live-feed titles of the modelled web
MaxKey == 2
\* the number of rows the store may hold in a run of one part of the program
MaxRows == 2
\* the number of rows the store may hold in a run of the whole program
MaxItems == 1
\* number of rules ever created in match_rules (AUTOINCREMENT ids 1..MaxRules)
MaxRules == 1
\* the per-row count of posts to the endpoint saturates here
MaxPosts == 2
\* the number of listing pages of a site (more than FAST_PAGES, as configured)
MaxPages == 4
\* the length of a base url, in characters
MaxBase == 3

\* ------------------------------------------------------------------ values
Url(i) == <<"url", i>>
Title(i) == <<"title", i>>
Urls == { Url(i) : i \in 1..MaxKey }
Titles == { Title(i) : i \in 1..MaxKey }
Keys == Urls \cup Titles

\* helpers on sequences of rows
Range(s) == { s[i] : i \in 1..Len(s) }
RowsWith(rows, col, v) == { i \in 1..Len(rows) : rows[i][col] = v }

VARIABLES
    articles_raw,       \* table articles_raw: rows [title, url, date, description,
                        \*   source]
    articles_cleaned,   \* table articles_cleaned: rows [title, url, date, description,
                        \*   summery, translated_text, source, tags, sent]
    rocket_launch,      \* table rocket_launch: rows [title, item_list, description,
                        \*   date, translated, sent]
    match_rules,        \* table match_rules: rows [id, pattern, tag, enabled]
    rule_seq,           \* the last AUTOINCREMENT id given out in match_rules
    last_call,          \* the last direct store call: [op, key, stored, raised]:
                        \*   stored says whether key was in the table when the call
                        \*   began, raised is the exception the call surfaced to its
                        \*   caller ("none": it returned)
    rocket_pc,          \* thread t3 (crawl_rocket_lunch): "start", "loop" (inside
                        \*   the for loop over res), "done"
    rnews_pc,           \* thread t4 (sender_thread_rnews): "fetch" (top of the while
                        \*   loop), "loop" (inside the for loop), "terminated"
    rnews_list,         \* sender_thread_rnews: rows of not_send_rocket_news to visit
    rnews_left,         \* how many rows of the fetched list the last pass never
                        \*   reached (history, cleared when the next pass starts)
    rnews_raised,       \* the exception that ended the last pass ("none"; cleared
                        \*   when the next pass starts)
    last_post,          \* per key: outcome of the latest requests.post for it:
                        \*   "none", "2xx", "non2xx", "raise" (history)
    posted,             \* per key: number of posts the endpoint received,
                        \*   saturating at MaxPosts (history)
    crawl_pc,           \* main thread: "page" (between two crawl_site_once calls),
                        \*   "loop" (inside the for loop of crawl_site_once),
                        \*   "terminated"
    crawl_web,          \* crawl_site_once: web_key of the page being crawled
                        \*   (NoWeb between two calls)
    summarizer,         \* cleaner_thread's argument: "pipeline" or "None"
    cleaner_pc,         \* thread t (cleaner_thread): "fetch", "loop", "terminated"
    uncleaned,          \* cleaner_thread: the articles of uncleaned still to visit
    cleaner_left,       \* how many articles of the fetched list the last pass
                        \*   never reached (history, cleared when the next starts)
    cleaner_raised,     \* the exception that ended the last pass ("none"; cleared
                        \*   when the next pass starts)
    enriched,           \* the articles check_article accepted in an iteration of
                        \*   the cleaner's for loop that has ended, with the tags
                        \*   extract_tags returned for them: [url, tagged, tags],
                        \*   tagged FALSE when extract_tags raised (history)
    sender_pc,          \* thread t2 (sender_thread): "fetch", "terminated"
    sender_left,        \* as rnews_left, for sender_thread
    sender_raised,      \* as rnews_raised, for sender_thread
    crawl_raised,       \* the exception the last crawl_site_once call raised into
                        \*   main's loop ("none": it returned)
    crawl_detail,       \* crawl_site_once: what get_soup gave for the detail page
                        \*   requested in the latest iteration of the for loop,
                        \*   "failed" or "soup"; NoDetail when none was requested
                        \*   (history)
    main_at,            \* main thread: the place of the while loop of main it
                        \*   reached last: [tier, web, page] (see MainNext)
    applied,            \* the last call of a function of the program that has no
                        \*   effect on the store: [fn, arg, value]
    slept,              \* seconds main has slept in FAST_INTERVAL and
                        \*   BACKFILL_INTERVAL sleeps since its last fast sweep
                        \*   ended (history)
    budget              \* the number of rows the run may store: the size of the
                        \*   modelled web (never changes)

store == <<articles_raw, articles_cleaned, rocket_launch, match_rules, rule_seq>>
rocketVars == <<rocket_pc>>
rnewsVars == <<rnews_pc, rnews_list, rnews_left, rnews_raised>>
postVars == <<last_post, posted>>
crawlVars == <<crawl_pc, crawl_web, crawl_raised, crawl_detail>>
cleanerVars == <<summarizer, cleaner_pc, uncleaned, cleaner_left, cleaner_raised,
                 enriched>>
senderVars == <<sender_pc, sender_left, sender_raised>>
workerVars == <<rocketVars, rnewsVars, postVars, crawlVars, cleanerVars, senderVars>>
schedVars == <<main_at, slept>>
vars == <<store, last_call, workerVars, applied, schedVars, budget>>

\* ------------------------------------------------------------------ schema
\* create_tables: the columns each table declares UNIQUE
\* (mutant: url declared without UNIQUE)
articles_raw_unique_missing == {}
articles_raw_unique == {"url"}
articles_cleaned_unique == {"url"}
\* rocket_launch declares no UNIQUE column (title is only NOT NULL)
rocket_launch_unique == {}

\* One sqlite INSERT: IntegrityError when a UNIQUE column of the new row equals
\* that column of a stored row, else the row is appended.
SqlInsert(rows, row, unique) ==
    IF \E i \in 1..Len(rows) : \E c \in unique : rows[i][c] = row[c]
    THEN [rows |-> rows, err |-> "IntegrityError"]
    ELSE [rows |-> Append(rows, row), err |-> "none"]

\* UPDATE table SET col = v WHERE keycol = key
SqlUpdate(rows, keycol, key, col, v) ==
    [ i \in 1..Len(rows) |->
        IF rows[i][keycol] = key THEN [rows[i] EXCEPT ![col] = v] ELSE rows[i] ]

\* ------------------------------------------------------------------ store API
\* a lookup that finds no row
raw_article_exists_never(url) == FALSE

\* SELECT 1 FROM articles_raw WHERE url = ? LIMIT 1
raw_article_exists(url) == RowsWith(articles_raw, "url", url) # {}

\* (mutant: INSERT OR REPLACE: the stored row of the same url is deleted and
\* the new row is appended)
insert_raw_article_or_replace(article) ==
    [rows |-> Append(SelectSeq(articles_raw, LAMBDA r : r.url # article.url), article),
     raised |-> "none"]
\* try: INSERT ... except sqlite3.IntegrityError: pass
insert_raw_article(article) ==
    LET r == SqlInsert(articles_raw, article, articles_raw_unique)
    IN  [rows |-> r.rows,
         raised |-> IF r.err = "IntegrityError" THEN "none" ELSE r.err]

\* the INSERT names no sent column: the row gets the column default FALSE
insert_cleaned_article(article) ==
    LET row == [title |-> article.title, url |-> article.url, date |-> article.date,
                description |-> article.description, summery |-> article.summery,
                translated_text |-> article.translated_text,
                source |-> article.source, tags |-> article.tags, sent |-> FALSE]
        r == SqlInsert(articles_cleaned, row, articles_cleaned_unique)
    IN  [rows |-> r.rows,
         raised |-> IF r.err = "IntegrityError" THEN "none" ELSE r.err]

\* (mutant: the row is rewritten whole, as REPLACE INTO would, and sent falls
\* back to its column default)
update_cleaned_articles_replace(tags, url) ==
    [ i \in 1..Len(articles_cleaned) |->
        IF articles_cleaned[i].url = url
        THEN [articles_cleaned[i] EXCEPT !.tags = tags, !.sent = FALSE]
        ELSE articles_cleaned[i] ]
\* UPDATE articles_cleaned SET tags=? where url=?
update_cleaned_articles(tags, url) ==
    SqlUpdate(articles_cleaned, "url", url, "tags", tags)

\* (mutant: the UPDATE has no WHERE clause)
mark_article_sent_all(url) ==
    [ i \in 1..Len(articles_cleaned) |-> [articles_cleaned[i] EXCEPT !.sent = TRUE] ]
\* UPDATE articles_cleaned SET sent = TRUE WHERE url = ?
mark_article_sent(url) ==
    SqlUpdate(articles_cleaned, "url", url, "sent", TRUE)

rocket_lunch_exists(title) == RowsWith(rocket_launch, "title", title) # {}

\* no try/except around the INSERT: an error would reach the caller
insert_rocket_lunch(rocket_news) ==
    LET row == [title |-> rocket_news.title, item_list |-> rocket_news.item_list,
                description |-> rocket_news.description, date |-> rocket_news.date,
                translated |-> rocket_news.translated, sent |-> FALSE]
        r == SqlInsert(rocket_launch, row, rocket_launch_unique)
    IN  [rows |-> r.rows, raised |-> r.err]

mark_rocket_news_sent(title) ==
    SqlUpdate(rocket_launch, "title", title, "sent", TRUE)

\* SELECT id, pattern, tag, enabled FROM match_rules ORDER BY id DESC
RECURSIVE Reverse(_)
Reverse(s) == IF s = <<>> THEN <<>> ELSE Append(Reverse(Tail(s)), Head(s))
\* (mutant: the rows read once, when the process started with an empty table)
rules_all_at_start == <<>>
rules_all == Reverse(match_rules)

\* str.strip(), on the strings the panel sends
Strip(str) ==
    CASE str = "Moon " -> "Moon"
      [] str = " " -> ""
      [] OTHER -> str

\* INSERT INTO match_rules: the id is the next AUTOINCREMENT value
rules_create(pattern, tag, enabled) ==
    Append(match_rules,
           [id |-> rule_seq + 1, pattern |-> Strip(pattern), tag |-> Strip(tag),
            enabled |-> enabled])

rules_update(rule_id, pattern, tag, enabled) ==
    [ i \in 1..Len(match_rules) |->
        IF match_rules[i].id = rule_id
        THEN [id |-> rule_id, pattern |-> Strip(pattern), tag |-> Strip(tag),
              enabled |-> enabled]
        ELSE match_rules[i] ]

rules_delete(rule_id) == SelectSeq(match_rules, LAMBDA r : r.id # rule_id)

\* ------------------------------------------------------------------ exceptions
\* An except clause catches the exception classes it names; "Exception" names
\* every exception a worker meets (TypeError, UnboundLocalError, AttributeError,
\* sqlite3.OperationalError, requests.ConnectionError, ...).
Catches(clause, exc) == clause = "Exception" \/ clause = exc

\* the empty string
EmptyText == <<{}>>
\* (mutant: every str counts as true)
Truthy_always(text) == TRUE
\* Python truthiness of a str column
Truthy(text) == text # EmptyText

\* where an exception raised inside the try of a worker's while loop leaves the
\* thread: at the top of the loop when the except clause catches it
AfterRaise(clause, exc) == IF Catches(clause, exc) THEN "fetch" ELSE "terminated"

\* a call of a function that leaves the store alone
Applied(fn, arg, value) == [fn |-> fn, arg |-> arg, value |-> value]

\* the post counter of a row
Bump(n) == IF n < MaxPosts THEN n + 1 ELSE n

\* rows held by the tables plus rules ever created, and the room the row
\* budget leaves for one more
TotalRows(raw, cleaned, rocket, nrules) ==
    Len(raw) + Len(cleaned) + Len(rocket) + nrules
HasRoom == TotalRows(articles_raw, articles_cleaned, rocket_launch, rule_seq) < budget

\* utils.helpers.translator: the external translation service returns the
\* translated text or raises
Farsi == <<{"fa"}>>
translator(text, outcome) ==
    IF outcome = "ok" THEN [raised |-> "none", value |-> Farsi]
    ELSE [raised |-> "TranslationError", value |-> EmptyText]

\* ------------------------------------------------------------------ live feed
SomeText == <<{"orbit"}>>
\* what extract_articles_from_live returns for the live page: a list of
\* entries {title, description, date, ul}, of any length, in which a title may
\* come more than once; the for loop meets its entries one by one
LiveEntry(t) == [title |-> t, description |-> SomeText, date |-> "d",
                 ul |-> "[{'Rocket:': 'Falcon 9'}]"]
LiveEntries == { LiveEntry(t) : t \in Titles }

\* ast.literal_eval(news.item_list): the repr of a list of one-key dicts parses
ItemListParses(item_list) == item_list # "malformed"

InitLive ==
    /\ rocket_pc = "start"
    /\ rnews_pc = "fetch"
    /\ rnews_list = <<>>
    /\ rnews_left = 0
    /\ rnews_raised = "none"
    /\ last_post = [k \in Keys |-> "none"]
    /\ posted = [k \in Keys |-> 0]

\* crawl_rocket_lunch, lines 106-108: get_soup, then extract_articles_from_live.
\* get_soup returns None on any failure and the extraction then returns [];
\* an exception of the extraction ends the thread before any insert.
CrawlRocketStart ==
    /\ rocket_pc = "start"
    /\ \E outcome \in {"page", "raise"} :
          rocket_pc' = IF outcome = "page" THEN "loop" ELSE "done"
    /\ UNCHANGED <<applied, schedVars, budget, store, last_call, rnewsVars, postVars, crawlVars, cleanerVars,
                   senderVars>>

\* crawl_rocket_lunch, lines 109-130: one iteration of the for loop, over the
\* next entry of res
CrawlRocketItem ==
    /\ rocket_pc = "loop"
    /\ \E i \in LiveEntries :
           IF rocket_lunch_exists(i.title)
           THEN UNCHANGED rocket_launch
           ELSE \E tr \in {"ok", "raise"} :
                   LET t == translator(i.description, tr)
                       translated_text == IF t.raised = "none" THEN t.value
                                          ELSE EmptyText
                       rocket_news == [title |-> i.title, item_list |-> i.ul,
                                       description |-> i.description, date |-> i.date,
                                       translated |-> translated_text]
                   IN  /\ HasRoom
                       /\ rocket_launch' = insert_rocket_lunch(rocket_news).rows
    /\ UNCHANGED <<applied, schedVars, budget, articles_raw, articles_cleaned, match_rules, rule_seq, last_call,
                   rocket_pc, rnewsVars, postVars, crawlVars, cleanerVars, senderVars>>

\* crawl_rocket_lunch, line 132: res has no further entry; the function sleeps
\* 24 h and returns; main started it once as a thread target, so the thread ends.
CrawlRocketReturn ==
    /\ rocket_pc = "loop"
    /\ rocket_pc' = "done"
    /\ UNCHANGED <<applied, schedVars, budget, store, last_call, rnewsVars, postVars, crawlVars,
                   cleanerVars, senderVars>>

\* (mutant: the WHERE r.sent = FALSE filter is missing)
get_not_send_rocket_news_all == rocket_launch
\* SELECT ... FROM rocket_launch r WHERE r.sent = FALSE; RocketNews(*row) takes
\* the five selected columns
get_not_send_rocket_news == SelectSeq(rocket_launch, LAMBDA r : ~r.sent)

\* (mutant: only request errors are handled)
sender_thread_rnews_except_narrow == "RequestException"
\* sender_thread_rnews, line 452: except Exception
sender_thread_rnews_except == "Exception"

\* sender_thread_rnews, line 428: the top of the while loop, get_rnews()
RnewsFetch ==
    /\ rnews_pc = "fetch"
    /\ \E db \in {"ok", "OperationalError"} :
          IF db = "ok"
          THEN /\ rnews_list' = get_not_send_rocket_news
               /\ rnews_pc' = "loop"
               /\ rnews_left' = 0
               /\ rnews_raised' = "none"
          ELSE /\ rnews_list' = <<>>
               /\ rnews_left' = 0
               /\ rnews_raised' = db
               /\ rnews_pc' = AfterRaise(sender_thread_rnews_except, db)
    /\ UNCHANGED <<applied, schedVars, budget, store, last_call, rocketVars, postVars, crawlVars, cleanerVars,
                   senderVars>>

\* sender_thread_rnews, lines 429-450: one iteration of the for loop.  The
\* endpoint answers 2xx or non-2xx (requests.post returns either response) or
\* the request raises; the marker may raise sqlite3.OperationalError.
RnewsItem ==
    /\ rnews_pc = "loop"
    /\ rnews_list # <<>>
    /\ LET news == Head(rnews_list)
           rest == Tail(rnews_list)
           Abort(exc) ==
               /\ rnews_list' = <<>>
               /\ rnews_left' = Len(rest)
               /\ rnews_raised' = exc
               /\ rnews_pc' = AfterRaise(sender_thread_rnews_except, exc)
           Continue ==
               /\ rnews_list' = rest
               /\ UNCHANGED <<rnews_left, rnews_raised, rnews_pc>>
       IN  IF ~Truthy(news.translated)
           THEN Continue /\ UNCHANGED <<rocket_launch, last_post, posted>>
           ELSE IF ~ItemListParses(news.item_list)
           THEN Abort("ValueError") /\ UNCHANGED <<rocket_launch, last_post, posted>>
           ELSE \E resp \in {"2xx", "non2xx", "raise"} :
                  IF resp = "raise"
                  THEN /\ Abort("ConnectionError")
                       /\ last_post' = [last_post EXCEPT ![news.title] = resp]
                       /\ UNCHANGED <<rocket_launch, posted>>
                  ELSE /\ last_post' = [last_post EXCEPT ![news.title] = resp]
                       /\ posted' = [posted EXCEPT ![news.title] = Bump(@)]
                       /\ \E mk \in {"ok", "OperationalError"} :
                             IF mk = "ok"
                             THEN /\ rocket_launch' = mark_rocket_news_sent(news.title)
                                  /\ Continue
                             ELSE /\ UNCHANGED rocket_launch
                                  /\ Abort(mk)
    /\ UNCHANGED <<applied, schedVars, budget, articles_raw, articles_cleaned, match_rules, rule_seq, last_call,
                   rocketVars, crawlVars, cleanerVars, senderVars>>

\* sender_thread_rnews, line 455: the for loop is over, sleep, next iteration
RnewsSleep ==
    /\ rnews_pc = "loop"
    /\ rnews_list = <<>>
    /\ rnews_pc' = "fetch"
    /\ rnews_left' = 0
    /\ rnews_raised' = "none"
    /\ UNCHANGED <<applied, schedVars, budget, store, last_call, rocketVars, rnews_list, postVars, crawlVars,
                   cleanerVars, senderVars>>

\* ------------------------------------------------------------------ http session
\* make_session, line 52: Retry(total=3, backoff_factor=0.5,
\* status_forcelist=[429,500,502,503,504]), mounted for http:// and https://
Retry_total == 3
status_forcelist == {"429", "500", "502", "503", "504"}

\* what a server gives for one request: a status, or no answer at all
Responses == {"200", "404", "ConnectionError"} \cup status_forcelist

\* session.get(url) through the adapter of make_session, followed by
\* resp.raise_for_status() (get_soup, lines 30-31), after one more request has
\* been issued and answered by resp.  On a connection error or a status of
\* status_forcelist urllib3 takes one retry from the budget (Retry.increment:
\* total - 1) and gives up once the budget is below zero
\* (Retry.is_exhausted), else it sleeps the backoff and issues the request
\* again ("retry").  `requests` counts the requests issued.
session_get(resp, st) ==
    IF resp = "ConnectionError" \/ resp \in status_forcelist
    THEN [requests |-> st.requests + 1,
          total |-> st.total - 1,
          outcome |-> IF st.total - 1 >= 0 THEN "retry"
                      ELSE IF resp = "ConnectionError" THEN "ConnectionError"
                      ELSE "RetryError"]
    ELSE [requests |-> st.requests + 1,
          total |-> st.total,
          outcome |-> IF resp = "200" THEN "ok" ELSE "HTTPError"]

\* session.get is called: no request issued yet
SessionGetCalled ==
    Applied("session.get", <<>>, [requests |-> 0, total |-> Retry_total, outcome |-> "retry"])

\* one request of a fetch get_soup(url, session=make_session()): the next
\* request of the fetch under way, or the first request of a new fetch
Fetch ==
    /\ LET under_way == IF applied.fn = "session.get" /\ applied.value.outcome = "retry"
                        THEN applied ELSE SessionGetCalled
       IN  \E resp \in Responses :
              applied' = Applied("session.get", Append(under_way.arg, resp),
                                 session_get(resp, under_way.value))
    /\ UNCHANGED <<store, last_call, workerVars, schedVars, budget>>

\* ------------------------------------------------------------------ page urls
\* A url is a sequence of characters; the characters of a base url are letters
\* and "/".  f"/page/{page_num}/" is "/page/", the digits of the number, "/".
RECURSIVE SeqsOf(_, _)
SeqsOf(S, n) ==
    IF n = 0 THEN {<<>>}
    ELSE { <<x>> \o t : x \in S, t \in SeqsOf(S, n - 1) }
BaseUrls == UNION { SeqsOf({"s", "n", "/"}, n) : n \in 1..MaxBase }
PageSuffix(page_num) == <<"/", "p", "a", "g", "e", "/", ToString(page_num), "/">>

\* str.rstrip("/")
RECURSIVE rstrip(_)
rstrip(str) ==
    IF str # <<>> /\ str[Len(str)] = "/" THEN rstrip(SubSeq(str, 1, Len(str) - 1))
    ELSE str

\* (mutant: the suffix appended to base as it is)
build_page_url_appended(base, page_num) ==
    IF page_num \in {0, 1} THEN base ELSE base \o PageSuffix(page_num)

\* utils.helpers.build_page_url
build_page_url(base, page_num) ==
    IF page_num \in {0, 1} THEN base ELSE rstrip(base) \o PageSuffix(page_num)

\* crawl_site_once, line 71: url = build_page_url(web["link"], page_num), for
\* any base and any page number, in any order
BuildPageUrl ==
    /\ \E base \in BaseUrls : \E page_num \in 0..MaxPages :
          applied' = Applied("build_page_url", <<base, page_num>>,
                             build_page_url(base, page_num))
    /\ UNCHANGED <<store, last_call, workerVars, schedVars, budget>>

\* ------------------------------------------------------------------ web pages
\* config.webs: the sites the crawl loop visits.  crawl_site_once and
\* cleaner_thread tell "spacenews" (type 2) from the others only; "space"
\* stands for the sites that are not "spacenews".
webs == {"space", "spacenews"}

\* exctract_full_description returned None (no soup, or no article div)
None == <<{"<None>"}>>

\* what exctract_full_description returns for an article page: None, or the
\* paragraphs joined by "\n" (the first paragraph may be empty)
Bodies == { None, <<{"orbit"}>>, <<{}, {"orbit"}>> }
\* the bodies of the pages of a site; cleaner_thread reads a body by line for
\* "spacenews" only, whose pages also have a body with no keyword in its first
\* paragraph
BodiesOf(web_key) ==
    IF web_key = "spacenews" THEN Bodies \cup { <<{"sun"}, {"orbit"}>> } ELSE Bodies

\* a stub without a usable link: exctract_articles gives url ""
NoUrl == <<"", 0>>
\* the stubs exctract_articles returns for a listing page, a list of any
\* length: {title, url, date}
Stub(i) == [title |-> Title(i), url |-> Url(i), date |-> "d"]
\* a site lists its own articles: the urls with an odd number are those of
\* "space", the others those of "spacenews"
Stubs(web_key) ==
    { Stub(i) : i \in { k \in 1..MaxKey : (k % 2 = 1) <=> (web_key = "space") } }
      \cup { [title |-> Title(1), url |-> NoUrl, date |-> "d"] }

\* main, lines 167-170 and 177-180: except Exception around crawl_site_once
main_except == "Exception"

\* what session.get and resp.raise_for_status() end in, for one url: a 2xx
\* response ("ok") or an exception of requests
FetchOutcomes == {"ok", "ConnectionError", "HTTPError", "RetryError"}

\* (mutant: an except clause that names one exception class)
get_soup_except_narrow == "HTTPError"
\* crawler/fetcher.py, line 34: except Exception
get_soup_except == "Exception"

\* get_soup: the soup of the page, or None when the request or the status
\* check raised
get_soup(outcome) ==
    IF outcome = "ok" THEN [raised |-> "none", soup |-> TRUE]
    ELSE IF Catches(get_soup_except, outcome) THEN [raised |-> "none", soup |-> FALSE]
    ELSE [raised |-> outcome, soup |-> FALSE]

\* no detail page requested
NoDetail == "none"
\* no call of crawl_site_once under way
NoWeb == "none"

\* crawl_site_once, lines 70-76, as main calls it inside its try (lines
\* 167-170 and 177-180): when get_soup returns None crawl_site_once returns; an
\* exception of exctract_articles (a listing div without the expected tags)
\* reaches the except of main.
crawl_site_once(web_key) ==
    /\ crawl_pc = "page"
    /\ crawl_detail' = NoDetail
    /\ \E got \in { get_soup(fetch) : fetch \in FetchOutcomes } :
          LET Raise(exc) ==
                  /\ crawl_raised' = exc
                  /\ crawl_pc' = IF Catches(main_except, exc) THEN "page"
                                 ELSE "terminated"
                  /\ crawl_web' = NoWeb
          IN  IF got.raised # "none"
              THEN Raise(got.raised)
              ELSE IF ~got.soup
              THEN /\ crawl_raised' = "none"
                   /\ crawl_web' = NoWeb
                   /\ UNCHANGED crawl_pc
              ELSE \E parse \in {"ok", "AttributeError"} :
                     IF parse # "ok"
                     THEN Raise(parse)
                     ELSE /\ crawl_web' = web_key
                          /\ crawl_pc' = "loop"
                          /\ crawl_raised' = "none"
    /\ UNCHANGED <<budget, store, last_call, rocketVars, rnewsVars, postVars, cleanerVars,
                   senderVars>>

\* main, lines 163-182: the next page of the fast or the backfill sweep, of
\* any site (the order of the pages is that of MainCrawl below)
CrawlPage ==
    /\ \E web_key \in webs : crawl_site_once(web_key)
    /\ UNCHANGED <<applied, schedVars>>

\* crawl_site_once, lines 77-103: what one iteration of the for loop, over the
\* stub article of the page of web_key, leaves behind: [detail, rows], the
\* detail page request and the rows of articles_raw.  Its own try/except
\* Exception turns every failure into "continue".
crawl_site_once_for(web_key, article) ==
    IF article.url = NoUrl \/ raw_article_exists(article.url)
    THEN { [detail |-> NoDetail, rows |-> articles_raw] }
    ELSE UNION {
           IF detail_soup.raised # "none" \/ ~detail_soup.soup
           THEN { [detail |-> "failed", rows |-> articles_raw] }
           ELSE { [detail |-> "soup", rows |-> articles_raw] }
                   \* exctract_full_description or insert_raw_article raised
                \cup
                { [detail |-> "soup",
                   rows |-> insert_raw_article(
                               [title |-> article.title, url |-> article.url,
                                date |-> article.date, description |-> content,
                                source |-> web_key]).rows] :
                  content \in IF HasRoom THEN BodiesOf(web_key) ELSE {} }
           : detail_soup \in { get_soup(fetch) : fetch \in FetchOutcomes } }

\* crawl_site_once, lines 77-103: one iteration of the for loop, over the next
\* stub of the page
CrawlStub ==
    /\ crawl_pc = "loop"
    /\ \E outcome \in UNION { crawl_site_once_for(crawl_web, article) :
                                 article \in Stubs(crawl_web) } :
          /\ crawl_detail' = outcome.detail
          /\ articles_raw' = outcome.rows
    /\ UNCHANGED <<applied, schedVars, budget, articles_cleaned, rocket_launch, match_rules, rule_seq,
                   last_call, crawl_pc, crawl_web, crawl_raised, rocketVars, rnewsVars, postVars,
                   cleanerVars, senderVars>>

\* the page has no further stub: crawl_site_once returns, main sleeps and
\* goes to the next page
CrawlPageEnd ==
    /\ crawl_pc = "loop"
    /\ crawl_pc' = "page"
    /\ crawl_detail' = NoDetail
    /\ crawl_web' = NoWeb
    /\ UNCHANGED <<applied, schedVars, budget, store, last_call, crawl_raised,
                   rocketVars, rnewsVars, postVars, cleanerVars, senderVars>>

\* ------------------------------------------------------------------ crawl schedule
\* config.py, lines 29-31
FAST_PAGES == 3
FAST_INTERVAL == 60
BACKFILL_INTERVAL == 60 * 60

\* config.webs in the order of the dict, which "for web_key in webs" follows
webs_order == <<"space", "spacenews">>
\* webs[web_key]["pages"]: every configured site has more than FAST_PAGES pages
\* (9, 698, 2876)
pages(web_key) == MaxPages

\* the places of the while loop of main: before it ("start"), a call of
\* crawl_site_once in the fast sweep ("fast") or in the backfill sweep
\* ("backfill") for page `page` of site webs_order[web], and the two sleeps
At(tier, web, page) == [tier |-> tier, web |-> web, page |-> page]

\* line 165: pages = min(FAST_PAGES, webs[web_key].get("pages", FAST_PAGES))
FastLast(web) ==
    IF pages(webs_order[web]) < FAST_PAGES THEN pages(webs_order[web]) ELSE FAST_PAGES

\* lines 174-176: the sites from index web on whose
\* range(FAST_PAGES + 1, total + 1) is not empty
BackfillWebs(web) ==
    { k \in web..Len(webs_order) : pages(webs_order[k]) >= FAST_PAGES + 1 }
FirstOf(S) == CHOOSE x \in S : \A y \in S : x <= y
BackfillFrom(web) ==
    IF BackfillWebs(web) = {} THEN At("backfill sleep", 0, 0)
    ELSE At("backfill", FirstOf(BackfillWebs(web)), FAST_PAGES + 1)

\* main, lines 163-182: the place that follows `at` in the while loop
MainNext(at) ==
    CASE at.tier \in {"start", "backfill sleep"} -> At("fast", 1, 1)
      [] at.tier = "fast" ->
            IF at.page < FastLast(at.web) THEN At("fast", at.web, at.page + 1)
            ELSE IF at.web < Len(webs_order) THEN At("fast", at.web + 1, 1)
            ELSE At("fast sleep", 0, 0)
      [] at.tier = "fast sleep" -> BackfillFrom(1)
      [] at.tier = "backfill" ->
            IF at.page < pages(webs_order[at.web]) THEN At("backfill", at.web, at.page + 1)
            ELSE BackfillFrom(at.web + 1)

\* main, lines 166-171 and 176-181: the next call of crawl_site_once
MainCrawl ==
    LET next_at == MainNext(main_at)
    IN  /\ next_at.tier \in {"fast", "backfill"}
        /\ crawl_site_once(webs_order[next_at.web])
        /\ main_at' = next_at
        /\ UNCHANGED <<slept, applied>>

\* main, line 172: time.sleep(FAST_INTERVAL), and line 182:
\* time.sleep(BACKFILL_INTERVAL)
MainSleep ==
    LET next_at == MainNext(main_at)
    IN  /\ crawl_pc = "page"
        /\ next_at.tier \in {"fast sleep", "backfill sleep"}
        /\ main_at' = next_at
        /\ slept' = IF next_at.tier = "fast sleep" THEN FAST_INTERVAL
                    ELSE slept + BACKFILL_INTERVAL
        /\ UNCHANGED <<budget, store, last_call, workerVars, applied>>

\* range(a, b) of Python, as the sequence the for loop walks
py_range(a, b) == [ i \in 1..(IF b > a THEN b - a ELSE 0) |-> a + i - 1 ]

\* (mutant: the backfill loop starts at FAST_PAGES)
backfill_pages_from_fast(total) == py_range(FAST_PAGES, total + 1)
\* main, lines 165-166: pages = min(FAST_PAGES, total);
\* for page_num in range(1, pages + 1)
fast_pages(total) ==
    py_range(1, (IF total < FAST_PAGES THEN total ELSE FAST_PAGES) + 1)
\* main, lines 175-176: for page_num in range(FAST_PAGES + 1, total + 1)
backfill_pages(total) == py_range(FAST_PAGES + 1, total + 1)

\* the two for loops of main over the pages of one site, for a site that is
\* configured with `total` pages
PageRanges ==
    \E total \in 0..MaxPages :
        /\ applied' = Applied("page ranges", total,
                              [fast |-> fast_pages(total),
                               backfill |-> backfill_pages(total)])
        /\ UNCHANGED <<store, last_call, workerVars, schedVars, budget>>

\* ------------------------------------------------------------------ keywords
KEYWORDS ==
    << "Israel", "Spy satellite", "Ofek series", "Orbit", "Classified tle",
       "Ofek 13", "Palmachim Airbase", "Mystery object into orbit",
       "Launch", "Satellite Launch Center", "Retrograde orbit", "Spies in space" >>

\* str.lower()
Lower(s) ==
    CASE s = "Israel" -> "israel"
      [] s = "Spy satellite" -> "spy satellite"
      [] s = "Ofek series" -> "ofek series"
      [] s = "Orbit" -> "orbit"
      [] s = "Classified tle" -> "classified tle"
      [] s = "Ofek 13" -> "ofek 13"
      [] s = "Palmachim Airbase" -> "palmachim airbase"
      [] s = "Mystery object into orbit" -> "mystery object into orbit"
      [] s = "Launch" -> "launch"
      [] s = "Satellite Launch Center" -> "satellite launch center"
      [] s = "Retrograde orbit" -> "retrograde orbit"
      [] s = "Spies in space" -> "spies in space"
      [] s = "#Orbit" -> "#orbit"
      [] s = "#Launch" -> "#launch"
      [] s = "Moon" -> "moon"
      [] s = "MOON" -> "moon"
      [] s = "ORBIT" -> "orbit"
      [] OTHER -> s

\* needle in hay, for two lowercase terms
IsSubstring(needle, hay) ==
    \/ needle = hay
    \/ <<needle, hay>> \in { <<"orbit", "mystery object into orbit">>,
                            <<"orbit", "retrograde orbit">>,
                            <<"launch", "satellite launch center">> }

\* needle in text.lower(): the needle occurs inside one of the terms of a line
Occurs(needle, text) ==
    \E i \in 1..Len(text) : \E term \in text[i] : IsSubstring(needle, term)

\* text.lower(), for a text of any case
LowerText(text) == [ i \in 1..Len(text) |-> { Lower(term) : term \in text[i] } ]

\* (mutant: the patterns of all rules, enabled or not)
EnabledPatterns_all ==
    LET rows == SelectSeq(rules_all, LAMBDA r : r.pattern # "")
    IN  [ i \in 1..Len(rows) |-> rows[i].pattern ]

\* the patterns of the enabled rules with a non-empty pattern, in rules_all order
EnabledPatterns ==
    LET rows == SelectSeq(rules_all, LAMBDA r : r.enabled /\ r.pattern # "")
    IN  [ i \in 1..Len(rows) |-> rows[i].pattern ]

\* check_article: False for an empty dict and without a description (no key,
\* None or ""), else any keyword or enabled pattern occurs in the lowercased
\* description
check_article(article) ==
    IF \/ article = <<>>
       \/ "description" \notin DOMAIN article
       \/ article.description = None
       \/ ~Truthy(article.description)
    THEN FALSE
    ELSE LET text == LowerText(article.description)
             c_keywords == KEYWORDS \o EnabledPatterns
         IN  \E i \in 1..Len(c_keywords) : Occurs(Lower(c_keywords[i]), text)

\* extract_tags, lines 108-114: a pattern is appended unless it is in the list
RECURSIVE AppendNew(_, _)
AppendNew(c_keywords, patterns) ==
    IF patterns = <<>> THEN c_keywords
    ELSE AppendNew(IF Head(patterns) \in Range(c_keywords) THEN c_keywords
                   ELSE Append(c_keywords, Head(patterns)),
                   Tail(patterns))

\* (mutant: the patterns of disabled rules are matched too)
extract_tags_all_rules(text) ==
    IF ~Truthy(text)
    THEN [raised |-> "UnboundLocalError", tags |-> <<>>]
    ELSE LET text_lower == LowerText(text)
             c_keywords == AppendNew(KEYWORDS, EnabledPatterns_all)
         IN  [raised |-> "none",
              tags |-> SelectSeq(c_keywords, LAMBDA kw : Occurs(Lower(kw), text_lower))]

\* extract_tags: for an empty text line 102 returns the local tags before it is
\* assigned (UnboundLocalError); else the keywords that occur, in list order
extract_tags(text) ==
    IF ~Truthy(text)
    THEN [raised |-> "UnboundLocalError", tags |-> <<>>]
    ELSE LET text_lower == LowerText(text)
             c_keywords == AppendNew(KEYWORDS, EnabledPatterns)
         IN  [raised |-> "none",
              tags |-> SelectSeq(c_keywords, LAMBDA kw : Occurs(Lower(kw), text_lower))]

\* ------------------------------------------------------------------ enrichment
\* main.py imports get_summarizer and summarizer_func from utils.helpers, which
\* does not define them: get_summarizer returns a pipeline or None, and
\* summarizer_func returns a condensed text or raises.
get_summarizer == {"pipeline", "None"}
Summary == <<{"summary"}>>
summarizer_func(text, outcome) ==
    IF outcome = "ok" THEN [raised |-> "none", value |-> Summary]
    ELSE [raised |-> "SummarizerError", value |-> EmptyText]

\* a local variable read before any assignment
Unbound == <<{"<unbound>"}>>

\* db.models.CleanArticle: the fields of the namedtuple
CleanArticle_fields ==
    << "title", "url", "date", "description", "summery", "second_summery",
       "translated_text", "second_translated_text", "source", "tags" >>

\* CleanArticle(**kwargs): a namedtuple has no defaults, every field is required
CleanArticle(kwargs) ==
    IF DOMAIN kwargs = Range(CleanArticle_fields)
    THEN [raised |-> "none", value |-> kwargs]
    ELSE [raised |-> "TypeError", value |-> kwargs]

\* (mutant: the join condition compares the wrong columns, every raw row comes
\* back, keyed by its title)
get_uncleaned_articles_rekeyed ==
    [ i \in 1..Len(articles_raw) |-> [articles_raw[i] EXCEPT !.url = articles_raw[i].title] ]
\* SELECT r.* FROM articles_raw r LEFT JOIN articles_cleaned c ON r.url = c.url
\* WHERE c.url IS NULL; Article(*row) takes the five selected columns
get_uncleaned_articles ==
    SelectSeq(articles_raw, LAMBDA r : RowsWith(articles_cleaned, "url", r.url) = {})

\* cleaner_thread, line 62: except Exception
cleaner_thread_except == "Exception"

\* cleaner_thread, line 29: the top of the while loop
CleanerFetch ==
    /\ cleaner_pc = "fetch"
    /\ \E db \in {"ok", "OperationalError"} :
          IF db = "ok"
          THEN /\ uncleaned' = get_uncleaned_articles
               /\ cleaner_pc' = "loop"
               /\ cleaner_left' = 0
               /\ cleaner_raised' = "none"
          ELSE /\ uncleaned' = <<>>
               /\ cleaner_left' = 0
               /\ cleaner_raised' = db
               /\ cleaner_pc' = AfterRaise(cleaner_thread_except, db)
    /\ UNCHANGED <<applied, schedVars, budget, store, last_call, summarizer, enriched, rocketVars, rnewsVars,
                   postVars, crawlVars, senderVars>>

\* cleaner_thread, lines 30-61: one iteration of the for loop
CleanerItem ==
    /\ cleaner_pc = "loop"
    /\ uncleaned # <<>>
    /\ LET fetched == Head(uncleaned)
           rest == Tail(uncleaned)
           Abort(exc) ==
               /\ uncleaned' = <<>>
               /\ cleaner_left' = Len(rest)
               /\ cleaner_raised' = exc
               /\ cleaner_pc' = AfterRaise(cleaner_thread_except, exc)
           Continue ==
               /\ uncleaned' = rest
               /\ UNCHANGED <<cleaner_left, cleaner_raised, cleaner_pc>>
       IN  IF ~check_article(fetched)
           THEN Continue /\ UNCHANGED <<articles_cleaned, enriched>>
           ELSE \E sm \in {"ok", "raise"} : \E tr \in {"ok", "raise"} :
                  LET \* lines 32-34: description.split("\n")[0]
                      article == IF fetched.source = "spacenews"
                                 THEN [fetched EXCEPT !.description = <<Head(@)>>]
                                 ELSE fetched
                      \* lines 36-41: without a summarizer nothing is assigned
                      s == summarizer_func(article.description, sm)
                      summarized_text ==
                          IF summarizer = "None" THEN Unbound
                          ELSE IF s.raised = "none" THEN s.value ELSE EmptyText
                      \* lines 42-46: reading the unbound local raises inside
                      \* the try, as a failure of the translator does
                      t == translator(summarized_text, tr)
                      translated_text ==
                          IF summarized_text = Unbound THEN EmptyText
                          ELSE IF t.raised = "none" THEN t.value ELSE EmptyText
                      tags == extract_tags(article.description)
                      cleaned_article ==
                          CleanArticle([title |-> article.title, url |-> article.url,
                                        date |-> article.date,
                                        description |-> article.description,
                                        summery |-> summarized_text,
                                        translated_text |-> translated_text,
                                        source |-> article.source, tags |-> tags.tags])
                  IN  /\ enriched' = enriched \cup
                             {[url |-> fetched.url, tagged |-> tags.raised = "none",
                               tags |-> tags.tags]}
                      /\ IF tags.raised # "none"
                         THEN Abort(tags.raised) /\ UNCHANGED articles_cleaned
                         ELSE IF summarized_text = Unbound
                         THEN Abort("UnboundLocalError") /\ UNCHANGED articles_cleaned
                         ELSE IF cleaned_article.raised # "none"
                         THEN Abort(cleaned_article.raised) /\ UNCHANGED articles_cleaned
                         ELSE \E db \in {"ok", "OperationalError"} :
                                IF db # "ok"
                                THEN Abort(db) /\ UNCHANGED articles_cleaned
                                ELSE /\ articles_cleaned' =
                                        insert_cleaned_article(cleaned_article.value).rows
                                     /\ Continue
    /\ UNCHANGED <<applied, schedVars, budget, articles_raw, rocket_launch, match_rules, rule_seq, last_call,
                   summarizer, rocketVars, rnewsVars, postVars, crawlVars, senderVars>>

\* cleaner_thread, line 64: the for loop is over, sleep, next iteration
CleanerSleep ==
    /\ cleaner_pc = "loop"
    /\ uncleaned = <<>>
    /\ cleaner_pc' = "fetch"
    /\ cleaner_left' = 0
    /\ cleaner_raised' = "none"
    /\ UNCHANGED <<applied, schedVars, budget, store, last_call, summarizer, uncleaned, enriched, rocketVars,
                   rnewsVars, postVars, crawlVars, senderVars>>

\* ------------------------------------------------------------------ article delivery
\* the columns get_not_send_cleaned_articles selects
not_send_columns ==
    << "title", "url", "date", "description", "summery", "translated_text",
       "source", "tags" >>

\* SELECT ... FROM articles_cleaned c WHERE c.sent = FALSE; CleanArticle(*row)
\* is given the selected columns positionally and raises TypeError unless
\* they are as many as the namedtuple's fields
get_not_send_cleaned_articles ==
    LET rows == SelectSeq(articles_cleaned, LAMBDA c : ~c.sent)
    IN  IF rows # <<>> /\ Len(not_send_columns) # Len(CleanArticle_fields)
        THEN [raised |-> "TypeError", rows |-> <<>>]
        ELSE [raised |-> "none", rows |-> rows]

\* sender_thread, line 398: the message is dropped when the only tag is
\* "orbit" or "launch" in any case (tags is the ", "-joined column)
Suppressed(tags) == Len(tags) = 1 /\ Lower(tags[1]) \in {"orbit", "launch"}

\* what the environment does to the row of one url during a pass
SendOutcomes == {"2xx", "non2xx", "translator raises", "post raises", "marker raises"}

\* sender_thread, lines 390-410: the for loop over the fetched rows; st is
\* [cleaned, last_post, posted] as the pass has left them so far
RECURSIVE sender_thread_for(_, _, _)
sender_thread_for(articles, env, st) ==
    IF articles = <<>>
    THEN [st |-> st, left |-> 0, raised |-> "none"]
    ELSE LET article == Head(articles)
             rest == Tail(articles)
             o == env[article.url]
             resp == IF o = "non2xx" THEN "non2xx" ELSE "2xx"
             posted_st == [st EXCEPT !.last_post[article.url] = resp,
                                     !.posted[article.url] = Bump(@)]
         IN  IF ~Truthy(article.translated_text) \/ article.tags = <<>>
             THEN sender_thread_for(rest, env, st)
             ELSE IF o = "translator raises"
             THEN [st |-> st, left |-> Len(rest), raised |-> "TranslationError"]
             ELSE IF Suppressed(article.tags)
             THEN sender_thread_for(rest, env, st)
             ELSE IF o = "post raises"
             THEN [st |-> [st EXCEPT !.last_post[article.url] = "raise"],
                   left |-> Len(rest), raised |-> "ConnectionError"]
             ELSE IF o = "marker raises"
             THEN [st |-> posted_st, left |-> Len(rest), raised |-> "OperationalError"]
             ELSE sender_thread_for(rest, env,
                      [posted_st EXCEPT !.cleaned =
                           SqlUpdate(@, "url", article.url, "sent", TRUE)])

\* sender_thread, line 412: except Exception
sender_thread_except == "Exception"

\* sender_thread, lines 387-415: one iteration of the while loop
SenderPass ==
    /\ sender_pc = "fetch"
    /\ \E db \in {"ok", "OperationalError"} :
          LET fetched == get_not_send_cleaned_articles
              urls == { fetched.rows[i].url : i \in 1..Len(fetched.rows) }
          IN  \E env \in [urls -> SendOutcomes] :
              LET r == sender_thread_for(fetched.rows, env,
                           [cleaned |-> articles_cleaned, last_post |-> last_post,
                            posted |-> posted])
              IN
              IF db # "ok"
              THEN /\ sender_raised' = db
                   /\ sender_left' = 0
                   /\ sender_pc' = AfterRaise(sender_thread_except, db)
                   /\ UNCHANGED <<articles_cleaned, last_post, posted>>
              ELSE IF fetched.raised # "none"
              THEN /\ sender_raised' = fetched.raised
                   /\ sender_left' = 0
                   /\ sender_pc' = AfterRaise(sender_thread_except, fetched.raised)
                   /\ UNCHANGED <<articles_cleaned, last_post, posted>>
              ELSE /\ articles_cleaned' = r.st.cleaned
                   /\ last_post' = r.st.last_post
                   /\ posted' = r.st.posted
                   /\ sender_raised' = r.raised
                   /\ sender_left' = r.left
                   /\ sender_pc' = IF r.raised = "none" THEN "fetch"
                                   ELSE AfterRaise(sender_thread_except, r.raised)
    /\ UNCHANGED <<applied, schedVars, budget, articles_raw, rocket_launch, match_rules, rule_seq, last_call,
                   rocketVars, rnewsVars, crawlVars, cleanerVars>>

\* ------------------------------------------------------------------ store-level specification
\* The most general client of db/database.py: any sequence of calls of the
\* functions that write the store, with arguments from small sets.  Every
\* loop of the program writes the store through these functions only.
ArticleInputs ==
    [title : Titles, url : Urls, date : {"d"}, description : {SomeText},
     source : {"space"}]
CleanArticleInputs ==
    [title : {Title(1)}, url : Urls, date : {"d"}, description : {SomeText},
     summery : {SomeText}, second_summery : {<<{}>>},
     translated_text : {SomeText}, second_translated_text : {<<{}>>},
     source : {"space"}, tags : {<<"Orbit">>}]
RocketNewsInputs ==
    [title : Titles, item_list : {"[]"}, description : {SomeText}, date : {"d"},
     translated : {SomeText}]
TagsInputs == {<<"Orbit", "moon">>}

Call(op, key, stored, exc) ==
    [op |-> op, key |-> key, stored |-> stored, raised |-> exc]

CallInsertRaw ==
    \E a \in ArticleInputs :
        LET r == insert_raw_article(a)
        IN  /\ TotalRows(r.rows, articles_cleaned, rocket_launch, rule_seq) <= budget
            /\ articles_raw' = r.rows
            /\ last_call' = Call("insert_raw_article", a.url,
                                 raw_article_exists(a.url), r.raised)
            /\ UNCHANGED <<articles_cleaned, rocket_launch, match_rules, rule_seq>>
            /\ UNCHANGED <<workerVars, applied, schedVars, budget>>

\* the enriched rows the delivery worker may find: with or without a
\* translated body, without tags, with the two generic tags, with another tag
StoredArticleKinds ==
    { [translated_text |-> SomeText, tags |-> <<>>],
      [translated_text |-> EmptyText, tags |-> <<"Israel">>],
      [translated_text |-> SomeText, tags |-> <<"Orbit", "Launch">>] }
StoredArticleInputs ==
    { [title |-> Title(1), url |-> u, date |-> "d", description |-> SomeText,
       summery |-> SomeText, second_summery |-> <<{}>>,
       translated_text |-> k.translated_text, second_translated_text |-> <<{}>>,
       source |-> "space", tags |-> k.tags] : u \in Urls, k \in StoredArticleKinds }

CallInsertCleaned ==
    \E c \in CleanArticleInputs :
        LET r == insert_cleaned_article(c)
        IN  /\ TotalRows(articles_raw, r.rows, rocket_launch, rule_seq) <= budget
            /\ articles_cleaned' = r.rows
            /\ last_call' = Call("insert_cleaned_article", c.url,
                                 RowsWith(articles_cleaned, "url", c.url) # {},
                                 r.raised)
            /\ UNCHANGED <<articles_raw, rocket_launch, match_rules, rule_seq>>
            /\ UNCHANGED <<workerVars, applied, schedVars, budget>>

\* insert_cleaned_article puts a row of StoredArticleInputs into the table
StoreArticle ==
    \E c \in StoredArticleInputs :
        LET r == insert_cleaned_article(c)
        IN  /\ TotalRows(articles_raw, r.rows, rocket_launch, rule_seq) <= budget
            /\ articles_cleaned' = r.rows
            /\ UNCHANGED <<articles_raw, rocket_launch, match_rules, rule_seq, last_call>>
            /\ UNCHANGED <<workerVars, applied, schedVars, budget>>

\* the raw rows a rule of the panel can bear on: a body in which only the
\* pattern "moon" occurs, and one in which a static keyword occurs as well
PanelArticleInputs ==
    [title : {Title(1)}, url : Urls, date : {"d"},
     description : { <<{"moon"}>>, <<{"orbit", "moon"}>> }, source : {"space"}]

\* insert_raw_article puts a row of PanelArticleInputs into the table
StoreRaw ==
    \E a \in PanelArticleInputs :
        LET r == insert_raw_article(a)
        IN  /\ TotalRows(r.rows, articles_cleaned, rocket_launch, rule_seq) <= budget
            /\ articles_raw' = r.rows
            /\ UNCHANGED <<articles_cleaned, rocket_launch, match_rules, rule_seq, last_call>>
            /\ UNCHANGED <<workerVars, applied, schedVars, budget>>

CallUpdateCleaned ==
    \E u \in Urls, t \in TagsInputs :
        /\ articles_cleaned' = update_cleaned_articles(t, u)
        /\ last_call' = Call("update_cleaned_articles", u,
                             RowsWith(articles_cleaned, "url", u) # {}, "none")
        /\ UNCHANGED <<articles_raw, rocket_launch, match_rules, rule_seq>>
        /\ UNCHANGED <<workerVars, applied, schedVars, budget>>

CallMarkArticleSent ==
    \E u \in Urls :
        /\ articles_cleaned' = mark_article_sent(u)
        /\ last_call' = Call("mark_article_sent", u,
                             RowsWith(articles_cleaned, "url", u) # {}, "none")
        /\ UNCHANGED <<articles_raw, rocket_launch, match_rules, rule_seq>>
        /\ UNCHANGED <<workerVars, applied, schedVars, budget>>

CallInsertRocket ==
    \E n \in RocketNewsInputs :
        LET r == insert_rocket_lunch(n)
        IN  /\ TotalRows(articles_raw, articles_cleaned, r.rows, rule_seq) <= budget
            /\ rocket_launch' = r.rows
            /\ last_call' = Call("insert_rocket_lunch", n.title,
                                 rocket_lunch_exists(n.title), r.raised)
            /\ UNCHANGED <<articles_raw, articles_cleaned, match_rules, rule_seq>>
            /\ UNCHANGED <<workerVars, applied, schedVars, budget>>

CallMarkRocketSent ==
    \E t \in Titles :
        /\ rocket_launch' = mark_rocket_news_sent(t)
        /\ last_call' = Call("mark_rocket_news_sent", t, rocket_lunch_exists(t), "none")
        /\ UNCHANGED <<articles_raw, articles_cleaned, match_rules, rule_seq>>
        /\ UNCHANGED <<workerVars, applied, schedVars, budget>>

CallRulesCreate ==
    \E en \in BOOLEAN :
        /\ rule_seq < MaxRules
        /\ TotalRows(articles_raw, articles_cleaned, rocket_launch, rule_seq + 1)
               <= budget
        /\ match_rules' = rules_create("moon", "moon", en)
        /\ rule_seq' = rule_seq + 1
        /\ last_call' = Call("rules_create", rule_seq + 1, FALSE, "none")
        /\ UNCHANGED <<articles_raw, articles_cleaned, rocket_launch>>
        /\ UNCHANGED <<workerVars, applied, schedVars, budget>>

CallRulesUpdate ==
    \E id \in 1..MaxRules, en \in BOOLEAN :
        /\ match_rules' = rules_update(id, "moon", "moon", en)
        /\ last_call' = Call("rules_update", id,
                             RowsWith(match_rules, "id", id) # {}, "none")
        /\ UNCHANGED <<articles_raw, articles_cleaned, rocket_launch, rule_seq>>
        /\ UNCHANGED <<workerVars, applied, schedVars, budget>>

CallRulesDelete ==
    \E id \in 1..MaxRules :
        /\ match_rules' = rules_delete(id)
        /\ last_call' = Call("rules_delete", id,
                             RowsWith(match_rules, "id", id) # {}, "none")
        /\ UNCHANGED <<articles_raw, articles_cleaned, rocket_launch, rule_seq>>
        /\ UNCHANGED <<workerVars, applied, schedVars, budget>>

\* ------------------------------------------------------------------ rules panel
\* app/main.py, lines 112-131: the rule forms of the panel, sent from a
\* logged-in session
PatternInputs == {"moon", "Moon ", " ", "Orbit"}
TagInputs == {"sun"}

api_rules_create ==
    \E pattern \in PatternInputs, tag \in TagInputs, enabled \in BOOLEAN :
        /\ rule_seq < MaxRules
        /\ match_rules' = rules_create(pattern, tag, enabled)
        /\ rule_seq' = rule_seq + 1
        /\ UNCHANGED <<articles_raw, articles_cleaned, rocket_launch, last_call>>
        /\ UNCHANGED <<workerVars, applied, schedVars, budget>>

api_rules_update ==
    \E rule_id \in 1..MaxRules, pattern \in PatternInputs, tag \in TagInputs,
       enabled \in BOOLEAN :
        /\ match_rules' = rules_update(rule_id, pattern, tag, enabled)
        /\ UNCHANGED <<articles_raw, articles_cleaned, rocket_launch, rule_seq, last_call>>
        /\ UNCHANGED <<workerVars, applied, schedVars, budget>>

api_rules_delete ==
    \E rule_id \in 1..MaxRules :
        /\ match_rules' = rules_delete(rule_id)
        /\ UNCHANGED <<articles_raw, articles_cleaned, rocket_launch, rule_seq, last_call>>
        /\ UNCHANGED <<workerVars, applied, schedVars, budget>>

\* the articles check_article is asked about: an empty dict, a dict without
\* description, and descriptions None, "", and texts of some lines
TextInputs ==
    { EmptyText, <<{"sun"}>>, <<{"ORBIT"}>>, <<{"MOON"}>>, <<{"sun"}, {"moon", "retrograde orbit"}>> }
CheckInputs ==
    { <<>>, [title |-> Title(1)] }
      \cup { [title |-> Title(1), description |-> text] : text \in TextInputs \cup {None} }

\* cleaner_thread, line 31: check_article(article._asdict())
CheckArticle ==
    /\ \E article \in CheckInputs :
          applied' = Applied("check_article", article, check_article(article))
    /\ UNCHANGED <<store, last_call, workerVars, schedVars, budget>>

\* cleaner_thread, line 48: tags = extract_tags(article.description)
ExtractTags ==
    /\ \E text \in TextInputs :
          applied' = Applied("extract_tags", text, extract_tags(text))
    /\ UNCHANGED <<store, last_call, workerVars, schedVars, budget>>

\* ------------------------------------------------------------------ objects in memory
\* the loops of the process: the while loop of main and the targets of the
\* threads t, t2, t3 and t4 that main starts
Loops == {"main", "cleaner_thread", "sender_thread", "crawl_rocket_lunch",
          "sender_thread_rnews"}

\* The objects in memory that the next step of a loop reads or writes.
\* "session" is the one requests.Session that main makes at line 157: main
\* passes it to crawl_rocket_lunch as the argument of t3 (158) and to every
\* crawl_site_once call of its own loop (168, 178), and both hand it to
\* get_soup, which calls session.get (main.py 73, 84, 107).  The summarizer
\* made at line 149 goes to cleaner_thread alone; the row lists are locals
\* of the loop that fetched them.
Uses(loop) ==
    CASE loop = "main" ->
           IF crawl_pc \in {"page", "loop"} THEN {"session"} ELSE {}
      [] loop = "crawl_rocket_lunch" ->
           IF rocket_pc = "start" THEN {"session"} ELSE {}
      [] loop = "cleaner_thread" ->
           IF cleaner_pc = "terminated" THEN {} ELSE {"summarizer", "uncleaned"}
      [] loop = "sender_thread" ->
           IF sender_pc = "terminated" THEN {} ELSE {"not_send_cleaned_articles"}
      [] loop = "sender_thread_rnews" ->
           IF rnews_pc = "terminated" THEN {} ELSE {"not_send_rocket_news"}

\* ------------------------------------------------------------------ reconciliation
\* (mutant: the SELECT names its table and every row converts)
get_cleaned_articles_from == [raised |-> "none", rows |-> articles_cleaned]
\* get_cleaned_articles: the SELECT of lines 109-111 has no FROM clause, so
\* c.execute raises sqlite3.OperationalError (no such column: r.title)
get_cleaned_articles == [raised |-> "OperationalError", rows |-> <<>>]

\* check_cleaned_article, lines 135-136: pattern[1] of the rows of rules_all
\* whose pattern[3] (enabled) is true
reconcile_rules ==
    LET rows == SelectSeq(rules_all, LAMBDA r : r.enabled)
    IN  [ i \in 1..Len(rows) |-> rows[i].pattern ]

\* article.tags.split(','), for the column that holds the tags joined by
\* ", ": every piece but the first starts with the blank; "" gives [""]
split_comma(tags) ==
    IF tags = <<>> THEN << [lead |-> FALSE, text |-> ""] >>
    ELSE [ i \in 1..Len(tags) |-> [lead |-> i > 1, text |-> tags[i]] ]

\* " ,".join(pieces), read again as a column of tags joined by ", ": every
\* tag but the last has gained a blank at its end
join_blank_comma(pieces) ==
    IF Len(pieces) = 1 /\ pieces[1].text = "" THEN <<>>
    ELSE [ i \in 1..Len(pieces) |->
             IF i < Len(pieces) THEN pieces[i].text \o " " ELSE pieces[i].text ]

\* check_cleaned_article, lines 137-145: the for loop over the fetched rows.
\* A piece that is not in rules sends the inner loop, when rules is not
\* empty, to article.description.low(): str has no method low and the call
\* raises AttributeError, which nothing catches; otherwise nothing is
\* appended and the pieces are joined and written back.
RECURSIVE check_cleaned_article_for(_, _, _)
check_cleaned_article_for(articles, rules, cleaned) ==
    IF articles = <<>>
    THEN [rows |-> cleaned, raised |-> "none"]
    ELSE LET article == Head(articles)
             tags == split_comma(article.tags)
             in_rules(piece) == ~piece.lead /\ piece.text \in Range(rules)
         IN  IF rules # <<>> /\ \E i \in 1..Len(tags) : ~in_rules(tags[i])
             THEN [rows |-> cleaned, raised |-> "AttributeError"]
             ELSE check_cleaned_article_for(
                      Tail(articles), rules,
                      SqlUpdate(cleaned, "url", article.url, "tags",
                                join_blank_comma(tags)))

\* check_cleaned_article, lines 133-146: what one call leaves in
\* articles_cleaned, and the exception it ends in
check_cleaned_article ==
    LET cleaned_articles == get_cleaned_articles
    IN  IF cleaned_articles.raised # "none"
        THEN [rows |-> articles_cleaned, raised |-> cleaned_articles.raised]
        ELSE check_cleaned_article_for(cleaned_articles.rows, reconcile_rules,
                                       articles_cleaned)

\* one call of check_cleaned_article
CheckCleanedArticle ==
    /\ articles_cleaned' = check_cleaned_article.rows
    /\ last_call' = Call("check_cleaned_article", <<>>, FALSE,
                         check_cleaned_article.raised)
    /\ UNCHANGED <<articles_raw, rocket_launch, match_rules, rule_seq>>
    /\ UNCHANGED <<workerVars, applied, schedVars, budget>>

\* ------------------------------------------------------------------ specifications
\* main, lines 150-157: the article workers as main starts them
InitArticles ==
    /\ crawl_pc = "page"
    /\ crawl_web = NoWeb
    /\ crawl_raised = "none"
    /\ crawl_detail = NoDetail
    /\ main_at = At("start", 0, 0)
    /\ slept = 0
    /\ summarizer \in get_summarizer
    /\ cleaner_pc = "fetch"
    /\ uncleaned = <<>>
    /\ cleaner_left = 0
    /\ cleaner_raised = "none"
    /\ enriched = {}
    /\ sender_pc = "fetch"
    /\ sender_left = 0
    /\ sender_raised = "none"

\* the state main() starts the threads in: create_tables on a fresh database
InitWorkers ==
    /\ articles_raw = <<>>
    /\ articles_cleaned = <<>>
    /\ rocket_launch = <<>>
    /\ match_rules = <<>>
    /\ rule_seq = 0
    /\ last_call = Call("create_tables", <<>>, FALSE, "none")
    /\ applied = Applied("none", <<>>, <<>>)
    /\ InitLive
    /\ InitArticles

\* a run of the whole program
Init == InitWorkers /\ budget = MaxItems
\* a run of one part of the program
InitPart == InitWorkers /\ budget = MaxRows

NextStore ==
    \/ CallInsertRaw
    \/ CallInsertCleaned
    \/ CallUpdateCleaned
    \/ CallMarkArticleSent
    \/ CallInsertRocket
    \/ CallMarkRocketSent
    \/ CallRulesCreate
    \/ CallRulesUpdate
    \/ CallRulesDelete

\* any sequence of calls of the store's functions
SpecStore == InitPart /\ [][NextStore]_vars

NextLive ==
    \/ CrawlRocketStart
    \/ CrawlRocketItem
    \/ CrawlRocketReturn
    \/ RnewsFetch
    \/ RnewsItem
    \/ RnewsSleep

\* the live-feed threads t3 (crawl_rocket_lunch) and t4 (sender_thread_rnews)
SpecLive == InitPart /\ [][NextLive]_vars

\* the same threads under a fair scheduler: a thread that can take a step
\* takes one, and the for loop of crawl_rocket_lunch, over a finite list,
\* comes to its end
FairLive ==
    /\ WF_vars(CrawlRocketStart)
    /\ WF_vars(CrawlRocketReturn)
    /\ WF_vars(RnewsFetch)
    /\ WF_vars(RnewsItem)
    /\ WF_vars(RnewsSleep)
SpecLiveFair == InitPart /\ [][NextLive]_vars /\ FairLive

ArticleWorkers ==
    \/ CrawlPage
    \/ CrawlStub
    \/ CrawlPageEnd
    \/ CleanerFetch
    \/ CleanerItem
    \/ CleanerSleep
    \/ SenderPass

\* the crawl loop of main and the threads t (cleaner_thread) and t2
\* (sender_thread)
SpecArticles == InitPart /\ [][ArticleWorkers]_vars

Next == ArticleWorkers \/ NextLive

\* the five threads of main()
Spec == Init /\ [][Next]_vars

\* the five threads of main(), where some thread that can take a step
\* eventually takes one
SpecFair == Init /\ [][Next]_vars /\ WF_vars(Next)

\* fetches of single urls through the session of make_session
SpecFetch == InitPart /\ [][Fetch]_vars

NextTags ==
    \/ api_rules_create
    \/ api_rules_update
    \/ api_rules_delete
    \/ CheckArticle
    \/ ExtractTags

\* keyword matching while the panel edits the rules
SpecTags == InitPart /\ [][NextTags]_vars

NextRules ==
    \/ api_rules_create
    \/ api_rules_update
    \/ api_rules_delete
    \/ ExtractTags
    \/ CallInsertCleaned

\* tag extraction and stored rows while the panel edits the rules
SpecRules == InitPart /\ [][NextRules]_vars

\* calls of build_page_url in any order
SpecUrl == InitPart /\ [][BuildPageUrl]_vars

NextMain ==
    \/ MainCrawl
    \/ CrawlStub
    \/ CrawlPageEnd
    \/ MainSleep

\* the main thread alone: the while loop of main with its calls of
\* crawl_site_once
SpecMain == InitPart /\ [][NextMain]_vars

NextPanel ==
    \/ StoreRaw
    \/ CleanerFetch
    \/ CleanerItem
    \/ CleanerSleep
    \/ CheckCleanedArticle
    \/ CallRulesCreate
    \/ CallRulesUpdate
    \/ CallRulesDelete

\* cleaner_thread and check_cleaned_article over raw rows that rules bear on,
\* while rules are created, enabled, disabled and deleted
SpecPanel == InitPart /\ [][NextPanel]_vars

NextSweep ==
    \/ NextMain
    \/ PageRanges

\* the while loop of main, next to its two page loops taken for sites of
\* every number of pages
SpecSweep == InitPart /\ [][NextSweep]_vars

NextReconcile ==
    \/ api_rules_create
    \/ api_rules_update
    \/ api_rules_delete
    \/ StoreArticle
    \/ CheckCleanedArticle

\* calls of check_cleaned_article over enriched rows of every kind, while
\* the panel edits the rules
SpecReconcile == InitPart /\ [][NextReconcile]_vars

\* insert_raw_article called again for a url that is stored, with any title
ReinsertRaw ==
    \E out \in { [rows |-> insert_raw_article(a).rows,
                   call |-> Call("insert_raw_article", a.url, TRUE,
                                 insert_raw_article(a).raised)] :
                  a \in { x \in ArticleInputs : raw_article_exists(x.url) } } :
        /\ articles_raw' = out.rows
        /\ last_call' = out.call
        /\ UNCHANGED <<articles_cleaned, rocket_launch, match_rules, rule_seq>>
        /\ UNCHANGED <<workerVars, applied, schedVars, budget>>

NextWriters ==
    \/ ArticleWorkers
    \/ ReinsertRaw
    \/ CheckCleanedArticle

\* everything that runs next to stored articles_raw rows: the crawl loop,
\* cleaner_thread and sender_thread, further insert_raw_article calls for
\* urls seen before, and check_cleaned_article
SpecWriters == Init /\ [][NextWriters]_vars

NextDelivery ==
    \/ StoreArticle
    \/ SenderPass
    \/ NextLive

\* the delivery workers t2 (sender_thread) and t4 (sender_thread_rnews), over
\* the rocket_launch rows of t3 and over enriched rows of every kind
SpecDelivery == InitPart /\ [][NextDelivery]_vars

\* the delivery workers under a fair scheduler: each thread that can take a
\* step takes one
SpecDeliveryFair ==
    InitPart /\ [][NextDelivery]_vars /\ FairLive /\ WF_vars(SenderPass)

\* insert_raw_article of the article an enriched row was made from: the
\* cleaner makes its rows from articles_raw rows, which are never deleted
StoreRawOf ==
    \E rows \in { insert_raw_article([title |-> c.title, url |-> c.url, date |-> c.date,
                                       description |-> c.description,
                                       source |-> c.source]).rows :
                     c \in { x \in Range(articles_cleaned) : ~raw_article_exists(x.url) } } :
        /\ TotalRows(rows, articles_cleaned, rocket_launch, rule_seq) <= budget
        /\ articles_raw' = rows
        /\ UNCHANGED <<articles_cleaned, rocket_launch, match_rules, rule_seq, last_call>>
        /\ UNCHANGED <<workerVars, applied, schedVars, budget>>

NextStuck ==
    \/ NextDelivery
    \/ StoreRawOf

\* delivery over enriched rows of every kind with their raw rows, and over
\* rocket_launch rows: the threads t2, t3 and t4
SpecStuck == InitPart /\ [][NextStuck]_vars

\* ------------------------------------------------------------------ claims on the store
AtMostOneRow(rows, col, keys) ==
    \A k \in keys : Cardinality(RowsWith(rows, col, k)) <= 1

\* C1: after any sequence of insert_raw_article / insert_cleaned_article calls
\* each url has at most one row in articles_raw and at most one in
\* articles_cleaned, and an insert of a url that is already stored leaves the
\* table as it was and surfaces no exception to the caller.
C1_IdempotentInsert ==
    [][ /\ AtMostOneRow(articles_raw', "url", Urls)
        /\ AtMostOneRow(articles_cleaned', "url", Urls)
        /\ (last_call'.op = "insert_raw_article"
              /\ raw_article_exists(last_call'.key))
             => (articles_raw' = articles_raw /\ last_call'.raised = "none")
        /\ (last_call'.op = "insert_cleaned_article"
              /\ RowsWith(articles_cleaned, "url", last_call'.key) # {})
             => (articles_cleaned' = articles_cleaned /\ last_call'.raised = "none")
      ]_vars

\* a second insert of a stored url has just returned, both tables hold rows
C1_Witness ==
    /\ last_call.op \in {"insert_raw_article", "insert_cleaned_article"}
    /\ last_call.stored
    /\ articles_raw # <<>>
    /\ articles_cleaned # <<>>

\* C2: the rocket_launch table holds at most one row per live-feed title, and
\* insert_rocket_lunch surfaces no exception.
C2_OneRowPerTitle ==
    /\ AtMostOneRow(rocket_launch, "title", Titles)
    /\ last_call.op = "insert_rocket_lunch" => last_call.raised = "none"

\* C4: a row of articles_cleaned or rocket_launch whose sent is TRUE is still
\* there, with the same key and sent TRUE, after every store operation.
StaysSent(rows, rowsNext, keycol) ==
    \A i \in 1..Len(rows) :
        rows[i].sent =>
            /\ i <= Len(rowsNext)
            /\ rowsNext[i][keycol] = rows[i][keycol]
            /\ rowsNext[i].sent

C4_SentMonotonic ==
    [][ /\ StaysSent(articles_cleaned, articles_cleaned', "url")
        /\ StaysSent(rocket_launch, rocket_launch', "title") ]_vars

\* tags of a delivered article have just been rewritten; a live row is delivered
C4_Witness ==
    /\ last_call.op = "update_cleaned_articles"
    /\ \E i \in 1..Len(articles_cleaned) :
          /\ articles_cleaned[i].sent
          /\ articles_cleaned[i].url = last_call.key
          /\ articles_cleaned[i].tags = <<"Orbit", "moon">>
    /\ \E i \in 1..Len(rocket_launch) : rocket_launch[i].sent

\* ------------------------------------------------------------------ claims on the workers
HasRawRow(url) == RowsWith(articles_raw, "url", url) # {}

SentRows(rows, keycol, key) ==
    { i \in 1..Len(rows) : rows[i][keycol] = key /\ rows[i].sent }

\* C5 (as stated): over any run of the delivery loops the message of a row is
\* posted to the endpoint at most once.
C5_PostedAtMostOnce == \A k \in Keys : posted[k] <= 1

\* C5 (amended): a row whose sent flag is TRUE is never posted again; a row is
\* posted only while its flag is FALSE, so it is posted a second time only
\* when the marker did not run after the first post.
C5_NoPostAfterMarked ==
    [][ /\ \A t \in Titles :
              SentRows(rocket_launch, "title", t) # {} => posted'[t] = posted[t]
        /\ \A u \in Urls :
              SentRows(articles_cleaned, "url", u) # {} => posted'[u] = posted[u]
      ]_vars

\* a live row was posted twice (the marker failed after the first post), is
\* marked now, and a later pass has fetched the unsent rows again
C5_Witness ==
    /\ \E t \in Titles : SentRows(rocket_launch, "title", t) # {} /\ posted[t] = 2
    /\ rnews_pc = "loop"
    /\ rnews_raised = "none"

\* C6: a row whose latest post failed (the request raised, or the endpoint
\* answered non-2xx) still has sent = FALSE, and the pass that starts next
\* fetches it again.
C6_FailedPostStaysUnsent ==
    \A i \in 1..Len(rocket_launch) :
        last_post[rocket_launch[i].title] \in {"non2xx", "raise"}
            => /\ ~rocket_launch[i].sent
               /\ rocket_launch[i].title \in
                      { get_not_send_rocket_news[j].title :
                            j \in 1..Len(get_not_send_rocket_news) }

\* C7: a row with sent = TRUE had a post that returned 2xx before the marker
\* was called.
C7_SentOnlyAfter2xx ==
    /\ \A i \in 1..Len(rocket_launch) :
          rocket_launch[i].sent => last_post[rocket_launch[i].title] = "2xx"
    /\ \A i \in 1..Len(articles_cleaned) :
          articles_cleaned[i].sent => last_post[articles_cleaned[i].url] = "2xx"

\* C8: every raw article check_article accepted has an articles_cleaned row
\* for its url once the iteration of the enrichment loop over it has ended.
C8_EligibleCommitted ==
    \A e \in enriched : RowsWith(articles_cleaned, "url", e.url) # {}

\* C9: none of the four worker loops (cleaner_thread, sender_thread,
\* sender_thread_rnews, the crawl loop of main) ever leaves its while loop:
\* an exception takes each to the top of the loop, where its next iteration
\* begins, never out of it.
C9_LoopsNeverTerminate ==
    /\ cleaner_pc \in {"fetch", "loop"}
    /\ sender_pc = "fetch"
    /\ rnews_pc \in {"fetch", "loop"}
    /\ crawl_pc \in {"page", "loop"}
    /\ cleaner_raised # "none" => cleaner_pc = "fetch"
    /\ sender_raised # "none" => sender_pc = "fetch"
    /\ rnews_raised # "none" => rnews_pc = "fetch"
    /\ crawl_raised # "none" => crawl_pc = "page"

\* each of the four loops has caught an exception and begun another iteration
C9_Witness ==
    /\ cleaner_raised \in {"TypeError", "UnboundLocalError"}
    /\ cleaner_pc = "fetch"
    /\ sender_raised = "OperationalError"
    /\ rnews_raised = "OperationalError"
    /\ rnews_pc = "fetch"
    /\ crawl_raised = "AttributeError"
    /\ crawl_pc = "page"

\* C10: an exception raised while one row is processed does not keep the rows
\* after it in the fetched list from being processed in the same pass: no
\* pass ends with rows it never reached.
C10_NoRowSkipped ==
    /\ rnews_left = 0
    /\ cleaner_left = 0
    /\ sender_left = 0

\* ------------------------------------------------------------------ claims on the crawl
\* C11: two consecutive fast sweeps are separated by the FAST_INTERVAL sleep
\* only: whenever main is in a fast sweep that is not its first, the interval
\* sleeps since the sweep before it add up to FAST_INTERVAL.
C11_FastCadence ==
    (main_at.tier = "fast" /\ slept > 0) => slept = FAST_INTERVAL

\* every url the listing pages of the site offer has a row in articles_raw
NoNewContent(web_key) ==
    \A s \in Stubs(web_key) : s.url # NoUrl => RowsWith(articles_raw, "url", s.url) # {}

\* C12: while crawl_site_once walks a page all of whose stub urls are already
\* in articles_raw, it requests no detail page and articles_raw stays as it
\* is (so a second pass without new content adds no row).
C12_SecondPassInsertsNothing ==
    [][ (crawl_pc = "loop" /\ NoNewContent(crawl_web))
            => (articles_raw' = articles_raw /\ crawl_detail' = NoDetail) ]_vars

\* main is in its second fast sweep, inside a page of a site whose articles
\* the first pass has stored
C12_Witness ==
    /\ crawl_pc = "loop"
    /\ NoNewContent(crawl_web)
    /\ RowsWith(articles_raw, "source", crawl_web) # {}
    /\ main_at.tier = "fast"
    /\ slept > FAST_INTERVAL

\* C13: no articles_raw row comes from a malformed extraction: every row has a
\* body (exctract_full_description did not return None), a title and a date.
C13_NoMalformedRow ==
    \A i \in 1..Len(articles_raw) :
        /\ articles_raw[i].description # None
        /\ articles_raw[i].title \in Titles
        /\ articles_raw[i].date # ""

\* C14: get_soup raises nothing, whatever the request ends in; a call of
\* crawl_site_once whose listing page gave no soup returns without a store
\* write; an iteration whose detail page gave no soup inserts nothing, so the
\* url is still absent from articles_raw and the next pass over the page
\* requests it again.
C14_FetchFailureSkips ==
    [][ /\ \A outcome \in FetchOutcomes : get_soup(outcome).raised = "none"
        /\ (crawl_pc = "page" /\ crawl_pc' = "page" /\ crawl_raised' = "none")
              => store' = store
        /\ (crawl_pc = "loop" /\ crawl_detail' = "failed")
              => /\ articles_raw' = articles_raw
                 /\ ~NoNewContent(crawl_web)'
      ]_vars

\* in the second fast sweep the detail page of an article that no earlier
\* pass stored is requested (again) and gives no soup: the url is still absent
C14_Witness ==
    /\ crawl_pc = "loop"
    /\ crawl_detail = "failed"
    /\ ~NoNewContent(crawl_web)
    /\ main_at.tier = "fast"
    /\ slept > FAST_INTERVAL

\* C15: when every answer to the requests for one url is a transient failure
\* (429/500/502/503/504), one fetch issues at most 3 requests, the first one
\* included.
C15_AtMostThreeRequests ==
    (/\ applied.fn = "session.get"
     /\ \A i \in 1..Len(applied.arg) : applied.arg[i] \in status_forcelist)
        => applied.value.requests <= 3

Slashes(n) == [ i \in 1..n |-> "/" ]
IsStripped(str, base) ==
    /\ str = <<>> \/ str[Len(str)] # "/"
    /\ \E n \in 0..Len(base) : base = str \o Slashes(n)

MatchTerms(rules) ==
    Range(KEYWORDS) \cup { r.pattern : r \in { q \in Range(rules) : q.enabled /\ q.pattern # "" } }
\* term occurs in text as a substring, whatever the case of the two
OccursAnyCase(term, text) ==
    \E i \in 1..Len(text) : \E word \in text[i] : IsSubstring(Lower(term), Lower(word))
HasBody(article) ==
    /\ article # <<>>
    /\ "description" \in DOMAIN article
    /\ article.description \notin {None, EmptyText}

\* C17: check_article(article) is True exactly when the article has a
\* non-empty description in which a static keyword, or the pattern of a
\* rule that is enabled and has a non-empty pattern when it is called, occurs
\* as a case-insensitive substring.
C17_EligibleIffTermOccurs ==
    [][ (applied' # applied /\ applied'.fn = "check_article") =>
          (applied'.value <=>
              /\ HasBody(applied'.arg)
              /\ \E term \in MatchTerms(match_rules') :
                    OccursAnyCase(term, applied'.arg.description))
      ]_vars

\* an article whose only term is the pattern of a disabled rule was refused,
\* and one matched by an enabled rule in another case was accepted before
C17_Witness ==
    /\ applied.fn = "check_article"
    /\ HasBody(applied.arg)
    /\ applied.arg.description = <<{"MOON"}>>
    /\ ~applied.value
    /\ \E i \in 1..Len(match_rules) :
          match_rules[i].pattern = "Moon" /\ ~match_rules[i].enabled

NoDuplicates(seq) == \A i, j \in 1..Len(seq) : seq[i] = seq[j] => i = j

\* C18: for every text and every rule set, extract_tags(text) returns exactly
\* the static keywords and patterns of enabled rules that occur in text in
\* any case, each once.
C18_ExactTags ==
    [][ (applied' # applied /\ applied'.fn = "extract_tags") =>
          /\ applied'.value.raised = "none"
          /\ Range(applied'.value.tags)
                = { term \in MatchTerms(match_rules') : OccursAnyCase(term, applied'.arg) }
          /\ NoDuplicates(applied'.value.tags)
      ]_vars

\* C19 (as stated): rules_update and rules_delete leave the stored
\* articles_cleaned rows as they are, and an extract_tags call made while a
\* rule is disabled does not return that rule's term.
C19_DisabledTermOmitted ==
    [][ /\ match_rules' # match_rules => articles_cleaned' = articles_cleaned
        /\ (applied' # applied /\ applied'.fn = "extract_tags") =>
              \A i \in 1..Len(match_rules') :
                  ~match_rules'[i].enabled =>
                      match_rules'[i].pattern \notin Range(applied'.value.tags)
      ]_vars

\* C19 (amended): rules_update and rules_delete leave the stored
\* articles_cleaned rows as they are, and an extract_tags call made after a
\* rule was disabled or deleted returns static keywords and patterns of the
\* rules still enabled only: the term of the disabled rule is omitted unless
\* it is a static keyword or the pattern of another enabled rule.
C19_OnlyEnabledTerms ==
    [][ /\ match_rules' # match_rules => articles_cleaned' = articles_cleaned
        /\ (applied' # applied /\ applied'.fn = "extract_tags") =>
              Range(applied'.value.tags) \subseteq MatchTerms(match_rules')
      ]_vars

\* with a row stored, the rule "Moon" is disabled and a call of extract_tags
\* on a text with that term returned no tag
C19_Witness ==
    /\ articles_cleaned # <<>>
    /\ \E i \in 1..Len(match_rules) :
          match_rules[i].pattern = "Moon" /\ ~match_rules[i].enabled
    /\ applied = Applied("extract_tags", <<{"MOON"}>>, [raised |-> "none", tags |-> <<>>])

\* ------------------------------------------------------------------ claims on enrichment tags
\* C20: for every raw article check_article accepted, of every source, the
\* tags the enrichment loop computed for its articles_cleaned row are a
\* non-empty list that contains a term which occurs in the stored body of the
\* article.
C20_TagsHoldEligibleTerm ==
    \A e \in enriched : \A i \in 1..Len(articles_raw) :
        articles_raw[i].url = e.url =>
            /\ e.tagged
            /\ e.tags # <<>>
            /\ \E k \in MatchTerms(match_rules) :
                  /\ OccursAnyCase(k, articles_raw[i].description)
                  /\ k \in Range(e.tags)

\* ------------------------------------------------------------------ claims on delivery
\* C21: an articles_cleaned row with an empty translated_text or empty tags,
\* and a rocket_launch row with an empty translated, has sent = FALSE and no
\* post was ever made for it.
C21_IncompleteRowsNotDelivered ==
    /\ \A i \in 1..Len(articles_cleaned) :
          (articles_cleaned[i].translated_text = EmptyText \/ articles_cleaned[i].tags = <<>>)
              => /\ ~articles_cleaned[i].sent
                 /\ last_post[articles_cleaned[i].url] = "none"
    /\ \A i \in 1..Len(rocket_launch) :
          rocket_launch[i].translated = EmptyText
              => /\ ~rocket_launch[i].sent
                 /\ last_post[rocket_launch[i].title] = "none"

\* sender_thread_rnews has ended a pass and a rocket_launch row without a
\* translated body is still unsent; sender_thread has made a pass with an
\* enriched row without tags in the table
C21_Witness ==
    /\ rnews_pc = "loop" /\ rnews_list = <<>> /\ rnews_raised = "none"
    /\ \E i \in 1..Len(rocket_launch) :
          rocket_launch[i].translated = EmptyText /\ ~rocket_launch[i].sent
    /\ sender_raised # "none"
    /\ \E i \in 1..Len(articles_cleaned) :
          articles_cleaned[i].tags = <<>> /\ ~articles_cleaned[i].sent

\* the tag set holds generic tags only: "orbit", "launch", in any case
GenericOnly(tags) ==
    tags # <<>> /\ \A i \in 1..Len(tags) : Lower(tags[i]) \in {"orbit", "launch"}

\* C22: an enriched article (a row with a translated body) whose tags are all
\* generic is never posted, never marked sent, and is among the rows
\* get_not_send_cleaned_articles() returns, in every state.
C22_GenericStaysPending ==
    \A i \in 1..Len(articles_cleaned) :
        (Truthy(articles_cleaned[i].translated_text) /\ GenericOnly(articles_cleaned[i].tags))
            => /\ ~articles_cleaned[i].sent
               /\ last_post[articles_cleaned[i].url] = "none"
               /\ get_not_send_cleaned_articles.raised = "none"
               /\ \E j \in 1..Len(get_not_send_cleaned_articles.rows) :
                     get_not_send_cleaned_articles.rows[j].url = articles_cleaned[i].url

\* ------------------------------------------------------------------ claims on the schedulers
\* C23: after every pass of crawl_rocket_lunch over the live page (rocket_pc
\* = "done": the pass has ended, with or without entries, or in an error)
\* another pass eventually begins.
C23_LivePassRecurs ==
    (rocket_pc = "done") ~> (rocket_pc # "done")

\* ------------------------------------------------------------------ claims on reconciliation
TagsOf(rows) == [ i \in 1..Len(rows) |-> rows[i].tags ]
\* an enabled rule whose pattern occurs in the body of the row
RuleApplies(rule, row) ==
    rule.enabled /\ rule.pattern # "" /\ OccursAnyCase(rule.pattern, row.description)
\* the step is a call of check_cleaned_article that follows another store call
ReconcileRun == last_call'.op = "check_cleaned_article" /\ last_call.op # "check_cleaned_article"

\* C24: whatever rows and rules a call of check_cleaned_article finds, a
\* second call made right after it (nothing else changed) leaves the tags
\* of every row as the first call left them; and a call made when no rule
\* applies to any row leaves the tags of every row as they were.
C24_ReconcileIdempotent ==
    [][ ReconcileRun =>
          /\ TagsOf(check_cleaned_article.rows)' = TagsOf(articles_cleaned')
          /\ (\A i \in 1..Len(articles_cleaned) : \A j \in 1..Len(match_rules) :
                  ~RuleApplies(match_rules[j], articles_cleaned[i]))
                => TagsOf(articles_cleaned') = TagsOf(articles_cleaned)
      ]_vars

\* check_cleaned_article has been called with two tags stored for a row and
\* an enabled rule whose pattern occurs in the body of the row
C24_Witness ==
    /\ last_call.op = "check_cleaned_article"
    /\ \E i \in 1..Len(articles_cleaned) :
          /\ Len(articles_cleaned[i].tags) = 2
          /\ \E j \in 1..Len(match_rules) : RuleApplies(match_rules[j], articles_cleaned[i])

\* C25: after a call of check_cleaned_article, for every row and every
\* enabled rule whose pattern occurs in the body of the row and whose tag was
\* not among the stored tags, the stored tags hold the tag of the rule
\* exactly once; the tags stored before are kept; the rows to which no such
\* rule applies are unchanged.
C25_MissingTagsAppended ==
    [][ ReconcileRun =>
          /\ Len(articles_cleaned') = Len(articles_cleaned)
          /\ \A i \in 1..Len(articles_cleaned) :
                LET row == articles_cleaned[i]
                    after == articles_cleaned'[i]
                    missing == { j \in 1..Len(match_rules) :
                                   /\ RuleApplies(match_rules[j], row)
                                   /\ match_rules[j].tag \notin Range(row.tags) }
                IN  /\ \A j \in missing :
                          Cardinality({ k \in 1..Len(after.tags) :
                                          after.tags[k] = match_rules[j].tag }) = 1
                    /\ Range(row.tags) \subseteq Range(after.tags)
                    /\ missing = {} => after = row
      ]_vars

\* C26: in the process that main() starts, check_cleaned_article is called
\* again and again (once in every period of seven days).
C26_ReconcileRecurs == []<>(last_call.op = "check_cleaned_article")

\* ------------------------------------------------------------------ claims on concurrency
\* C27: no object in memory is used by two loops: in every state, the
\* objects that the next steps of two different loops read or write are
\* different objects.
C27_NoSharedObject ==
    \A a \in Loops : \A b \in Loops \ {a} : Uses(a) \cap Uses(b) = {}

\* ------------------------------------------------------------------ claims on frames
\* C28: raw rows are write-once: in every step of the crawl loop, of the
\* cleaner (with its trim of the first line for "spacenews"), of the
\* sender, of check_cleaned_article, of the store's functions and of
\* insert_raw_article called again for a stored url, every row that articles_raw
\* holds before the step is there after it, at its place, with every column
\* unchanged.
C28_RawRowsWriteOnce ==
    [][ /\ Len(articles_raw') >= Len(articles_raw)
        /\ \A i \in 1..Len(articles_raw) : articles_raw'[i] = articles_raw[i]
      ]_vars

\* a raw row of "spacenews" with a body of two lines is stored, its
\* iteration of the cleaner has ended (the trim was made), and
\* insert_raw_article was called again for a url that is stored
C28_Witness ==
    /\ \E e \in enriched : \E i \in 1..Len(articles_raw) :
          /\ articles_raw[i].url = e.url
          /\ articles_raw[i].source = "spacenews"
          /\ Len(articles_raw[i].description) = 2
    /\ last_call.op = "insert_raw_article" /\ last_call.stored

\* ------------------------------------------------------------------ claims on enrichment passes
\* C29: an article is enriched once: when an iteration of the cleaner's for
\* loop takes an article that check_article accepts, with a summarizer at
\* hand (so that the summarizer and the translator are invoked for it), no
\* earlier iteration has taken the same article.
C29_EnrichedOnce ==
    [][ ( /\ cleaner_pc = "loop"
          /\ uncleaned # <<>>
          /\ uncleaned' # uncleaned
          /\ summarizer = "pipeline"
          /\ check_article(Head(uncleaned)) )
        => \A e \in enriched : e.url # Head(uncleaned).url
      ]_vars

\* the step turns the sent flag of a stored row of the table from FALSE to
\* TRUE inside a call of the marker for the key of that row, or leaves it
FlagStep(rows, after, keycol, marker) ==
    \A i \in 1..Len(rows) :
        /\ i <= Len(after)
        /\ after[i].sent # rows[i].sent =>
              /\ ~rows[i].sent
              /\ last_call'.op = marker
              /\ last_call'.key = rows[i][keycol]
\* the rows the step adds to the table have sent = FALSE
CreatedUnsent(rows, after) ==
    \A i \in (Len(rows) + 1)..Len(after) : after[i].sent = FALSE

\* C30: in every step, a row added to articles_cleaned or to rocket_launch
\* has sent = FALSE, and the sent flag of a stored row changes only from
\* FALSE to TRUE and only in a call of mark_article_sent (for articles_cleaned)
\* or mark_rocket_news_sent (for rocket_launch) for the key of that row; the
\* inserts, update_cleaned_articles and the rule functions leave it as it is.
C30_OnlyMarkersSetSent ==
    [][ /\ CreatedUnsent(articles_cleaned, articles_cleaned')
        /\ CreatedUnsent(rocket_launch, rocket_launch')
        /\ FlagStep(articles_cleaned, articles_cleaned', "url", "mark_article_sent")
        /\ FlagStep(rocket_launch, rocket_launch', "title", "mark_rocket_news_sent")
      ]_vars

\* two enriched rows are stored, one marked sent and one not, and the tags
\* of the sent row have been rewritten by update_cleaned_articles since
C30_Witness ==
    /\ last_call.op = "update_cleaned_articles"
    /\ \E i \in 1..Len(articles_cleaned) : \E j \in 1..Len(articles_cleaned) :
          /\ articles_cleaned[i].sent
          /\ articles_cleaned[i].url = last_call.key
          /\ articles_cleaned[i].tags = <<"Orbit", "moon">>
          /\ ~articles_cleaned[j].sent

\* ------------------------------------------------------------------ claims on page coverage
\* the pages main walks for the site at index web in the tier
TierPages(tier, web) ==
    IF tier = "fast" THEN fast_pages(pages(webs_order[web]))
    ELSE backfill_pages(pages(webs_order[web]))
Crawling(at) == at.tier \in {"fast", "backfill"}
SameLoop(a, b) == a.tier = b.tier /\ a.web = b.web

\* C31: for a site of N pages the fast loop walks 1..min(FAST_PAGES, N) and
\* the backfill loop FAST_PAGES+1..N, both in increasing order, so that the
\* two together walk 1..N with every page once, and the backfill loop walks
\* nothing when N <= FAST_PAGES; and the while loop of main visits, for each
\* site in each tier, exactly these pages: it enters the site at the first
\* page of the tier, goes on to the page after, and leaves after the last.
C31_PageCoverage ==
    [][ /\ applied'.fn = "page ranges" =>
              LET N == applied'.arg
                  fast == applied'.value.fast
                  backfill == applied'.value.backfill
              IN  /\ fast = [ i \in 1..(IF N < FAST_PAGES THEN N ELSE FAST_PAGES) |-> i ]
                  /\ fast \o backfill = [ i \in 1..N |-> i ]
                  /\ N <= FAST_PAGES => backfill = <<>>
        /\ (main_at' # main_at /\ Crawling(main_at')) =>
              LET walked == TierPages(main_at'.tier, main_at'.web)
              IN  /\ walked # <<>>
                  /\ IF Crawling(main_at) /\ SameLoop(main_at, main_at')
                     THEN main_at'.page = main_at.page + 1 /\ main_at'.page \in Range(walked)
                     ELSE main_at'.page = Head(walked)
        /\ (main_at' # main_at /\ Crawling(main_at) /\ ~SameLoop(main_at, main_at')) =>
              LET walked == TierPages(main_at.tier, main_at.web)
              IN  /\ main_at.page = walked[Len(walked)]
                  /\ IF main_at.web < Len(webs_order)
                     THEN \/ SameLoop(main_at', At(main_at.tier, main_at.web + 1, 0))
                          \/ /\ main_at.tier = "backfill"
                             /\ \A k \in (main_at.web + 1)..(IF Crawling(main_at')
                                                              THEN main_at'.web - 1
                                                              ELSE Len(webs_order)) :
                                   TierPages("backfill", k) = <<>>
                     ELSE ~Crawling(main_at')
      ]_vars

\* main has gone through the fast sweep and the backfill sweep of the last
\* site, and the page loops were taken for a site of fewer pages than
\* FAST_PAGES
C31_Witness ==
    /\ main_at.tier = "backfill sleep"
    /\ applied.fn = "page ranges"
    /\ applied.arg < FAST_PAGES
    /\ applied.arg > 0

\* ------------------------------------------------------------------ claims on the rules at work
\* the static keywords and the tag and the pattern of every enabled rule
Vocabulary(rules) ==
    Range(KEYWORDS) \cup { r.pattern : r \in { q \in Range(rules) : q.enabled } }
                    \cup { r.tag : r \in { q \in Range(rules) : q.enabled } }

LiveDivs ==
    { [h3 |-> <<Title(1)>>, time |-> <<5>>,  p |-> <<"Liftoff">>, li |-> << <<"Rocket:">> >>],
      [h3 |-> <<Title(2)>>, time |-> <<20>>, p |-> <<"Liftoff">>, li |-> << <<"Rocket:">> >>],
      [h3 |-> <<Title(1)>>, time |-> <<40>>, p |-> <<"Liftoff">>, li |-> << <<"Rocket:">> >>],
      [h3 |-> <<>>,         time |-> <<5>>,  p |-> <<"Liftoff">>, li |-> << <<"Rocket:">> >>],
      [h3 |-> <<Title(1)>>, time |-> <<>>,   p |-> <<"Liftoff">>, li |-> << <<"Rocket:">> >>],
      [h3 |-> <<Title(2)>>, time |-> <<5>>,  p |-> <<>>,          li |-> << <<"Rocket:">> >>],
      [h3 |-> <<Title(1)>>, time |-> <<5>>,  p |-> <<"Liftoff">>, li |-> <<>>],
      [h3 |-> <<Title(2)>>, time |-> <<5>>,  p |-> <<"Liftoff">>, li |-> << <<>> >>] }

\* extract_articles_from_live, the for loop over divs (lines 127-153).
\* description is the list find_all returns, never None, and full_text a
\* string, never None: neither test drops an entry. item.find("strong") is
\* None for a <li> without <strong>, and .get_text on it raises. Line 126 has
\* overwritten the parameter last_date by today - 11 days before the loop.
RECURSIVE extract_articles_from_live_for(_, _, _)
extract_articles_from_live_for(divs, last_date, results) ==
    IF divs = <<>> THEN [raised |-> "none", results |-> results]
    ELSE LET div == Head(divs)
         IN  IF div.li = <<>>
             THEN extract_articles_from_live_for(Tail(divs), last_date, results)
             ELSE IF \E i \in 1..Len(div.li) : div.li[i] = <<>>
             THEN [raised |-> "AttributeError", results |-> <<>>]
             ELSE IF div.h3 = <<>> \/ div.time = <<>> \/ div.time[1] > 11
             THEN extract_articles_from_live_for(Tail(divs), last_date, results)
             ELSE extract_articles_from_live_for(Tail(divs), last_date,
                                                 Append(results, div))

\* extract_articles_from_live(soup, web, last_date): [] for no soup, else the
\* entries the loop keeps; an entry kept stands for its news dict
extract_articles_from_live(soup, last_date) ==
    IF ~soup.ok THEN [raised |-> "none", results |-> <<>>]
    ELSE extract_articles_from_live_for(soup.divs, last_date, <<>>)

\* crawl_rocket_lunch, line 108: res = extract_articles_from_live(soup, web, 30)
\* on a page of up to MaxRows entries, or on the None get_soup returns; the
\* window is drawn from the caller's 30 and the 11 of line 126
ExtractLive ==
    /\ \E soup \in [ok : {TRUE}, divs : UNION { SeqsOf(LiveDivs, n) : n \in 0..MaxRows }]
                   \cup [ok : {FALSE}, divs : {<<>>}],
          last_date \in {11, 30} :
          applied' = Applied("extract_articles_from_live",
                             [soup |-> soup, last_date |-> last_date],
                             extract_articles_from_live(soup, last_date))
    /\ UNCHANGED <<store, last_call, workerVars, schedVars, budget>>

\* the live page's filter on its own
SpecFeed == InitPart /\ [][ExtractLive]_vars

\* ================================================================== claims on the live page
\* an entry the claimed filter keeps for a window of D days: a title, a
\* timestamp not older than D days, a non-empty body, at least one <li> fact
Qualifies(div, D) ==
    /\ div.h3 # <<>>
    /\ div.time # <<>> /\ div.time[1] <= D
    /\ div.p # <<>>
    /\ div.li # <<>> /\ \A i \in 1..Len(div.li) : div.li[i] # <<>>

\* C33: extract_articles_from_live returns exactly the entries of the page that
\* have a title, a timestamp, a non-empty body and at least one <li> fact and
\* whose date is not older than the last_date days the caller passes; an entry
\* failing a condition is dropped and the others are still extracted.
C33_LiveFilter ==
    (applied.fn = "extract_articles_from_live" /\ applied.arg.soup.ok)
        => /\ applied.value.raised = "none"
           /\ applied.value.results =
                  SelectSeq(applied.arg.soup.divs,
                            LAMBDA div : Qualifies(div, applied.arg.last_date))

\* ------------------------------------------------------------------ claims on rule edits
\* the patterns of the rules that are enabled in rules and occur in text
LiveRulePatterns(rules, text) ==
    { rules[i].pattern : i \in { j \in 1..Len(rules) :
          /\ rules[j].enabled
          /\ rules[j].pattern # ""
          /\ OccursAnyCase(rules[j].pattern, text) } }

\* C34: every check_article and extract_tags call works on the match_rules
\* rows as they are when it is made: a rule created or enabled before the call
\* makes an article with its pattern eligible and puts the pattern into the
\* tags; a rule disabled or deleted before the call counts for neither.
C34_EditsPropagate ==
    [][ /\ (applied' # applied /\ applied'.fn = "check_article"
                /\ HasBody(applied'.arg)) =>
              /\ LiveRulePatterns(match_rules', applied'.arg.description) # {}
                    => applied'.value
              /\ applied'.value
                    => \E term \in MatchTerms(match_rules') :
                          OccursAnyCase(term, applied'.arg.description)
        /\ (applied' # applied /\ applied'.fn = "extract_tags"
                /\ applied'.value.raised = "none") =>
              /\ LiveRulePatterns(match_rules', applied'.arg)
                    \subseteq Range(applied'.value.tags)
              /\ Range(applied'.value.tags) \ Range(KEYWORDS)
                    \subseteq LiveRulePatterns(match_rules', applied'.arg)
      ]_vars

\* a text whose only term is the pattern of a rule was found eligible, which
\* takes a call made after the rule was created and enabled
C34_Witness ==
    /\ applied.fn = "check_article"
    /\ HasBody(applied.arg)
    /\ applied.arg.description = <<{"MOON"}>>
    /\ applied.value
    /\ LiveRulePatterns(match_rules, <<{"MOON"}>>) # {}

\* ------------------------------------------------------------------ claims on degraded enrichment
\* C35: when the summarizer or the translator raises for an eligible article,
\* the iteration still commits the article's articles_cleaned row, with the
\* failed field (summery, translated_text) empty and title, url, date, source
\* and tags as they are when both succeed; only a database error keeps the
\* row from being committed.
C35_DegradedRowCommitted ==
    [][ ( /\ cleaner_pc = "loop"
          /\ uncleaned # <<>>
          /\ uncleaned' # uncleaned
          /\ summarizer = "pipeline"
          /\ check_article(Head(uncleaned))
          /\ cleaner_raised' # "OperationalError" )
        => \E i \in 1..Len(articles_cleaned') :
              LET row == articles_cleaned'[i]
                  article == Head(uncleaned)
              IN  /\ row.url = article.url
                  /\ row.title = article.title
                  /\ row.date = article.date
                  /\ row.source = article.source
                  /\ row.tags = extract_tags(article.description).tags
                  /\ row.summery \in {Summary, EmptyText}
                  /\ row.translated_text \in {Farsi, EmptyText}
      ]_vars

\* ------------------------------------------------------------------ claims on starvation
\* an unsent articles_cleaned row of the url that sender_thread would send
DeliverableArticle(u) ==
    \E i \in 1..Len(articles_cleaned) :
        /\ articles_cleaned[i].url = u
        /\ Truthy(articles_cleaned[i].translated_text)
        /\ articles_cleaned[i].tags # <<>>
        /\ ~Suppressed(articles_cleaned[i].tags)
        /\ ~articles_cleaned[i].sent
\* an unsent rocket_launch row of the title that sender_thread_rnews would send
DeliverableNews(t) ==
    \E i \in 1..Len(rocket_launch) :
        /\ rocket_launch[i].title = t
        /\ Truthy(rocket_launch[i].translated)
        /\ ItemListParses(rocket_launch[i].item_list)
        /\ ~rocket_launch[i].sent

\* C36: under a fair scheduler, every articles_cleaned row with a translated
\* text and tags that are not suppressed is eventually marked sent, and so is
\* every rocket_launch row with a translation, provided no post for the row
\* itself raises, no title translation raises and the database does not
\* fail pass after pass: a failure on another row, in every pass, does not
\* starve it.
C36_NoStarvation ==
    /\ \A u \in Urls :
          ([](last_post[u] # "raise" /\ sender_raised # "TranslationError")
             /\ []<>(sender_raised # "OperationalError"))
            => (DeliverableArticle(u)
                  ~> \E i \in 1..Len(articles_cleaned) :
                        articles_cleaned[i].url = u /\ articles_cleaned[i].sent)
    /\ \A t \in Titles :
          [](last_post[t] # "raise" /\ rnews_raised # "OperationalError")
            => (DeliverableNews(t)
                  ~> \E i \in 1..Len(rocket_launch) :
                        rocket_launch[i].title = t /\ rocket_launch[i].sent)

\* ------------------------------------------------------------------ claims on rows without a translation
\* the row stays in the table as it is, the only row of its key
StaysAsIs(rows, after, i, keycol) ==
    /\ i <= Len(after)
    /\ after[i] = rows[i]
    /\ Cardinality(RowsWith(after, keycol, rows[i][keycol])) = 1

\* C37: an articles_cleaned row whose translated_text is empty, and a
\* rocket_launch row whose translated is empty, is never rewritten,
\* re-translated or stored a second time, is not among the articles
\* get_uncleaned_articles returns to the cleaner for enrichment, and no
\* delivery pass posts it or marks it:
\* its sent flag stays FALSE.
C37_EmptyTranslationStuck ==
    [][ /\ \A i \in 1..Len(articles_cleaned) :
              (articles_cleaned[i].translated_text = EmptyText /\ ~articles_cleaned[i].sent) =>
                  /\ StaysAsIs(articles_cleaned, articles_cleaned', i, "url")
                  /\ last_post'[articles_cleaned[i].url] = last_post[articles_cleaned[i].url]
                  /\ \A j \in 1..Len(get_uncleaned_articles) :
                        get_uncleaned_articles[j].url # articles_cleaned[i].url
        /\ \A i \in 1..Len(rocket_launch) :
              (rocket_launch[i].translated = EmptyText /\ ~rocket_launch[i].sent) =>
                  /\ StaysAsIs(rocket_launch, rocket_launch', i, "title")
                  /\ last_post'[rocket_launch[i].title] = last_post[rocket_launch[i].title]
      ]_vars

\* sender_thread has made a pass over a table that holds an unsent row
\* without a translation, whose raw row is in articles_raw, and no post was
\* made for it
C37_Witness ==
    /\ sender_raised # "none"
    /\ \E i \in 1..Len(articles_cleaned) :
          /\ articles_cleaned[i].translated_text = EmptyText
          /\ ~articles_cleaned[i].sent
          /\ RowsWith(articles_raw, "url", articles_cleaned[i].url) # {}
          /\ last_post[articles_cleaned[i].url] = "none"

\* ------------------------------------------------------------------ claims on pending articles
\* the iteration of the cleaner's for loop over the article at the head of
\* the fetched list
CleanerTakes == cleaner_pc = "loop" /\ uncleaned # <<>> /\ uncleaned' # uncleaned

\* the raw article that check_article refuses gets no articles_cleaned row
\* and every list the cleaner fetches holds each raw row without a cleaned row
StaysPending ==
    /\ (CleanerTakes /\ ~check_article(Head(uncleaned))) =>
          /\ articles_cleaned' = articles_cleaned
          /\ RowsWith(articles_cleaned', "url", Head(uncleaned).url) = {}
    /\ (cleaner_pc = "fetch" /\ cleaner_pc' = "loop") =>
          \A i \in 1..Len(articles_raw) :
              RowsWith(articles_cleaned, "url", articles_raw[i].url) = {}
                  => \E j \in 1..Len(uncleaned') : uncleaned'[j] = articles_raw[i]

\* C38: a raw article that check_article refuses gets no articles_cleaned row
\* and is in every list the cleaner fetches afterwards; once a rule whose
\* pattern occurs in its body is enabled, the next iteration of the cleaner
\* over it, with a summarizer at hand and no database error, commits its
\* articles_cleaned row.
C38_PendingThenEnriched ==
    [][ /\ StaysPending
        /\ ( /\ CleanerTakes
             /\ summarizer = "pipeline"
             /\ LiveRulePatterns(match_rules, Head(uncleaned).description) # {}
             /\ cleaner_raised' # "OperationalError" )
           => RowsWith(articles_cleaned', "url", Head(uncleaned).url) # {}
      ]_vars

\* ------------------------------------------------------------------ the delivery loop on its own
\* sender_thread takes its getter as the parameter get_article. One pass of
\* its for loop (lines 390-410) over a list of unsent rows with distinct urls,
\* as a getter that returns the rows of the table hands them over: rows of
\* every kind, a row whose only tag is "Orbit" among them; env is what the
\* translator, the endpoint and the marker do for each row.
SenderLoop ==
    /\ applied.fn = "none"
    /\ LET kinds == StoredArticleKinds \cup {[translated_text |-> SomeText, tags |-> <<"Orbit">>]}
           rows == { [title |-> Title(1), url |-> u, date |-> "d", description |-> SomeText,
                      summery |-> SomeText, translated_text |-> k.translated_text,
                      source |-> "space", tags |-> k.tags, sent |-> FALSE] :
                     u \in Urls, k \in kinds }
           lists == { l \in UNION { SeqsOf(rows, n) : n \in 0..MaxRows } :
                        \A i, j \in 1..Len(l) : l[i].url = l[j].url => i = j }
       IN  \E articles \in lists :
           \E env \in [ { articles[i].url : i \in 1..Len(articles) } -> SendOutcomes ] :
              applied' = Applied("sender_thread", [articles |-> articles, env |-> env],
                                 sender_thread_for(articles, env,
                                     [cleaned |-> articles, last_post |-> last_post,
                                      posted |-> posted]))
    /\ UNCHANGED <<store, last_call, workerVars, schedVars, budget>>

SpecSend == InitPart /\ [][SenderLoop]_vars

\* ================================================================== claims on skipped rows
\* a row sender_thread does not send: no translated text, no tags, or a
\* suppressed tag set
Skipped(article) ==
    \/ ~Truthy(article.translated_text)
    \/ article.tags = <<>>
    \/ Suppressed(article.tags)

\* C39: in a delivery pass, for every row that sender_thread does not send
\* (empty translated_text, empty tags, suppressed tags) the endpoint is not
\* called, and neither is the translator: the pass goes the same way whatever
\* the translator and the endpoint would do for that row.
C39_SkipCostsNoCall ==
    applied.fn = "sender_thread" =>
        \A i \in 1..Len(applied.arg.articles) :
            LET article == applied.arg.articles[i]
            IN  Skipped(article) =>
                  /\ applied.value.st.posted[article.url] = 0
                  /\ applied.value.st.last_post[article.url] = "none"
                  /\ \A o \in SendOutcomes :
                        sender_thread_for(applied.arg.articles,
                                          [applied.arg.env EXCEPT ![article.url] = o],
                                          [cleaned |-> applied.arg.articles,
                                           last_post |-> last_post, posted |-> posted])
                            = applied.value

\* ------------------------------------------------------------------ claims on extract_tags
\* C40: extract_tags returns a list and raises nothing for every text the
\* cleaner hands it, the empty first line of a "spacenews" body included, so
\* that no pass of the cleaner ends in an exception of extract_tags with
\* articles left unvisited.
C40_ExtractTagsTotal ==
    /\ \A e \in enriched : e.tagged
    /\ (cleaner_raised = "UnboundLocalError" /\ summarizer = "pipeline") => cleaner_left = 0

====
